---- MODULE Spec2Model ----
(***************************************************************************)
(* Model of agglayer/gha-notify-release: the releases-list canvas          *)
(* reconciler (updateReleasesListCanvas in its three versions), the chat   *)
(* notification (sendReleaseNotification) and the action entry point (run).*)
(*                                                                         *)
(* The Slack workspace and the .github/releases-canvases files are the     *)
(* environment: every call to them has a nondeterministic outcome.         *)
(***************************************************************************)
EXTENDS Integers, Sequences, FiniteSets, TLC

VARIABLES
    store,      \* .github/releases-canvases: [meta, rels] (file-store version)
    canvas,     \* the channel canvas held by Slack: [exists, id, content]
    last,       \* what the last updateReleasesListCanvas call did
    hist,       \* history of the calls made so far
    out,        \* what the last run() of the action reported
    proc,       \* two invocations of updateReleasesListCanvas in progress
    pure        \* a function of the program, its input and its result

vars == <<store, canvas, last, hist, out, proc, pure>>

---------------------------------------------------------------------------
(* Bounds of the model *)

MaxRuns == 52          \* successful file-store reconciles explored
MaxRunsB == 7          \* successful canvas-content reconciles explored
MaxRunsC == 4          \* successful aggressive-discovery reconciles explored
MaxRunsMain == 2       \* runs of the action explored
MaxRunsD == 3          \* successful reconciles explored with a damaged entry file
MaxLenRT == 6          \* longest entry list rendered and parsed back
MaxClock == 2          \* the minutes at which a list is rendered
MaxRounds == 2         \* rounds of two concurrent invocations, after the first
MaxItems == 1         \* entries of each list of an analysis
MaxLines == 4         \* lines of the release notes analysed
MaxContext == 3       \* lines of the notes whose workflow status is read
MaxMajor == 3         \* largest major version number mentioned
MaxNotes == 3         \* lines of the release notes that are classified

(* Program constants *)

MaxReleases == 50      \* releases.splice(50)
RecentCount == 5       \* index < 5 / totalDisplayed < 5

---------------------------------------------------------------------------
(* Release entries *)

ChangeTypes == {"normal", "breaking", "config", "e2e"}

NoMeta == [present |-> FALSE, canvasId |-> 0, releaseCount |-> 0]

\* interface ReleaseEntry; version n stands for the n-th release tag.
\* link = "plain" for a bare version, "url" when releaseUrl is set and
\* "text" when the version string itself is the text "[v](url)". date is
\* "date" for a display date and "text" for a date followed by other text.
Entry(n, ct, hb, hc, he, link, repo) ==
    [version |-> n, date |-> "date", changeType |-> ct, hasBreaking |-> hb,
     hasConfig |-> hc, hasE2E |-> he, link |-> link, repo |-> repo]

NoEntry == Entry(0, "normal", FALSE, FALSE, FALSE, "plain", "")

\* run(): changeType by priority breaking > config > e2e > normal
ChangeTypeOf(hb, hc, he) ==
    IF hb THEN "breaking" ELSE IF hc THEN "config"
    ELSE IF he THEN "e2e" ELSE "normal"

\* run(): the entry handed to updateReleasesListCanvas
NewRelease(n, hb, hc, he, hasUrl) ==
    Entry(n, ChangeTypeOf(hb, hc, he), hb, hc, he,
          IF hasUrl THEN "url" ELSE "plain", "")

\* a Prepend that cuts one entry too late
Prepend_OffByOne(rel, releases) ==
    LET all == <<rel>> \o releases
    IN  IF Len(all) > MaxReleases + 1 THEN SubSeq(all, 1, MaxReleases + 1)
        ELSE all

\* releases.unshift(newRelease); if (length > 50) releases.splice(50)
Prepend(rel, releases) ==
    LET all == <<rel>> \o releases
    IN  IF Len(all) > MaxReleases THEN SubSeq(all, 1, MaxReleases) ELSE all

---------------------------------------------------------------------------
(* Thrown values and the messages the catch block looks into *)

Codes == {"not_in_channel", "missing_scope", "channel_canvas_already_exists",
          "canvas_creation_failed"}

\* A thrown value: an Error (with a message), or a value with no message.
\* code is data.error; has is the set of needles its message contains.
Thrown(shape, code, has, text) ==
    [shape |-> shape, code |-> code, has |-> has, text |-> text]

NoErr == Thrown("none", "none", {}, "")

\* What the Slack client can throw: a platform error whose message quotes
\* the code, an Error carrying data.error with another message, or a bare
\* object carrying only data.error.
ProviderErrors(codes) ==
    {Thrown("Error", c, {c}, "An API error occurred") : c \in codes}
      \cup {Thrown("Error", c, {}, "Canvas creation failed") : c \in codes}
      \cup {Thrown("Object", c, {}, "") : c \in codes}

FsError == Thrown("Error", "none", {}, "EACCES: permission denied")

Outcome(kind, val) == [kind |-> kind, val |-> val]
Ok == Outcome("ok", NoErr)

---------------------------------------------------------------------------
(* The canvas markdown, as the sequence of its lines *)

Line(kind, e, n) == [kind |-> kind, e |-> e, n |-> n]

\* releases.filter(...).length
CountBreaking(releases) ==
    Cardinality({i \in DOMAIN releases : releases[i].hasBreaking})
CountConfig(releases) ==
    Cardinality({i \in DOMAIN releases : releases[i].hasConfig})
CountE2E(releases) ==
    Cardinality({i \in DOMAIN releases : releases[i].hasE2E})
CountNormal(releases) ==
    Cardinality({i \in DOMAIN releases : releases[i].changeType = "normal"})

\* the "Release Statistics" block
StatLines(releases) ==
    << Line("statTotal", NoEntry, Len(releases)),
       Line("statBreaking", NoEntry, CountBreaking(releases)),
       Line("statConfig", NoEntry, CountConfig(releases)),
       Line("statE2E", NoEntry, CountE2E(releases)),
       Line("statNormal", NoEntry, CountNormal(releases)) >>

\* generateCanvasMarkdown of the file-store version. now is the clock value
\* printed in "Last updated".
GenerateCanvasMarkdownA(releases, now) ==
    LET head == << Line("title", NoEntry, 0), Line("updated", NoEntry, now),
                   Line("recentHeader", NoEntry, 0) >>
        each == [i \in 1..Len(releases) |->
                   IF i - 1 < RecentCount
                   THEN Line("recentHeading", releases[i], 0)
                   ELSE Line("bullet", releases[i], 0)]
        rest == IF Len(releases) > RecentCount
                THEN << Line("allHeader", NoEntry, Len(releases)) >>
                     \o [i \in 1..(Len(releases) - RecentCount) |->
                           Line("bullet", releases[i + RecentCount], 0)]
                ELSE << >>
    IN  IF Len(releases) = 0
        THEN head \o << Line("empty", NoEntry, 0) >>
        ELSE head \o each \o rest \o StatLines(releases)
               \o << Line("legend", NoEntry, 0), Line("footer", NoEntry, 0) >>

---------------------------------------------------------------------------
(* Channel resolution *)

ChannelRefs == {"C1", "#releases"}
ListOutcomes == {"found", "absent", "nochannels", "throws"}

\* a getChannelId that takes an unknown name for the id
GetChannelId_NameAsId(ref, listOut) ==
    [id |-> 1,
     calls |-> IF ref = "C1" THEN << >> ELSE << "conversations.list" >>]

\* getChannelId: an id (starts with 'C') is returned as it is; a name is
\* looked up with conversations.list. Returns [id, calls]; id 0 is null.
GetChannelId(ref, listOut) ==
    IF ref = "C1"
    THEN [id |-> 1, calls |-> << >>]
    ELSE [id |-> IF listOut = "found" THEN 1 ELSE 0,
          calls |-> << "conversations.list" >>]

---------------------------------------------------------------------------
(* The catch block of updateReleasesListCanvas *)

\* errorMessage = error?.message || error; errorMessage.includes(...)
\* A value with no message is not a string: includes is not a function and
\* the TypeError leaves the catch block, so the promise rejects.
CatchLog(val, extraNeedle) ==
    IF val.shape # "Error" THEN "rejected"
    ELSE IF "not_in_channel" \in val.has THEN "warn:not_in_channel"
    ELSE IF "missing_scope" \in val.has \/ "canvases:write" \in val.has
         THEN "warn:missing_scope"
    ELSE IF "channel_canvas_already_exists" \in val.has
         THEN "warn:already_exists"
    ELSE IF extraNeedle /\ "Canvas exists but cannot be discovered" \in val.has
         THEN "warn:skipped"
    ELSE "error:failed"

\* The result of one updateReleasesListCanvas call
Result(ret, log, val, calls, st, cv, target) ==
    [ret |-> ret, rejected |-> (log = "rejected"), log |-> log,
     text |-> val.text, calls |-> calls, store |-> st, canvas |-> cv,
     target |-> target, lossy |-> FALSE]

NoResult == Result(FALSE, "none", NoErr, << >>, [meta |-> NoMeta, rels |-> << >>],
                   [exists |-> FALSE, id |-> 0, content |-> << >>], 0)

Failed(val, calls, st, cv, target, extraNeedle) ==
    LET log == CatchLog(val, extraNeedle)
    IN  Result(log = "warn:skipped", log, val, calls, st, cv, target)

---------------------------------------------------------------------------
(* File-store version: src/src/releases-list.ts lines 1-482 *)

\* What conversations.canvases.create can answer: Slack keeps one channel
\* canvas per channel and refuses a second with channel_canvas_already_exists.
CreateOutcomes(cv) ==
    IF cv.exists
    THEN {Outcome("throw", v) :
            v \in ProviderErrors({"channel_canvas_already_exists"})}
    ELSE {Ok}
           \cup {Outcome("notOk", Thrown("none", c, {}, "")) :
                   c \in {"canvas_creation_failed"}}
           \cup {Outcome("throw", v) :
                   v \in ProviderErrors(Codes \ {"channel_canvas_already_exists"})}

\* What canvases.edit can answer: the code of a failed edit is only looked
\* for in the message
EditOutcomes ==
    {Ok} \cup {Outcome("throw", Thrown("Error", c, {c}, "An API error occurred")) :
                 c \in Codes}
         \cup {Outcome("throw", Thrown("Error", "canvas_not_found", {}, "Canvas edit failed")),
               Outcome("throw", Thrown("Object", "canvas_not_found", {}, ""))}

WriteOutcomes == {"ok", "fail"}

\* canvases.edit with operation 'replace' on canvas id
EditCanvas(cv, id, md) ==
    IF cv.exists /\ cv.id = id THEN [cv EXCEPT !.content = md] ELSE cv

CUResult(ok, id, val, calls, cv) ==
    [ok |-> ok, id |-> id, val |-> val, calls |-> calls, canvas |-> cv]

\* createOrUpdateCanvas of the file-store version, existingCanvasId given
EditPathA(cv, md, existingCanvasId, eo) ==
    IF eo.kind = "ok"
    THEN CUResult(TRUE, existingCanvasId, NoErr, << "canvases.edit" >>,
                  EditCanvas(cv, existingCanvasId, md))
    ELSE CUResult(FALSE, 0, eo.val, << "canvases.edit" >>, cv)

\* createOrUpdateCanvas of the file-store version, no existingCanvasId
CreatePathA(cv, md, co, newId) ==
    IF co.kind = "ok"
    THEN CUResult(TRUE, newId, NoErr, << "canvases.create" >>,
                  [exists |-> TRUE, id |-> newId, content |-> md])
    ELSE IF co.kind = "notOk"
    THEN CUResult(FALSE, 0,
                  Thrown("Error", "none", {co.val.code},
                         "Canvas creation failed: code"),
                  << "canvases.create" >>, cv)
    ELSE IF co.val.code = "not_in_channel"
    THEN CUResult(FALSE, 0,
                  Thrown("Error", "none", {}, "Bot is not in channel"),
                  << "canvases.create" >>, cv)
    ELSE IF co.val.code = "missing_scope"
    THEN CUResult(FALSE, 0,
                  Thrown("Error", "none", {"canvases:write"},
                         "Bot missing required permission"),
                  << "canvases.create" >>, cv)
    ELSE IF co.val.code = "channel_canvas_already_exists"
    THEN CUResult(FALSE, 0,
                  Thrown("Error", "none", {}, "Channel canvas already exists"),
                  << "canvases.create" >>, cv)
    ELSE CUResult(FALSE, 0, co.val, << "canvases.create" >>, cv)

\* a createOrUpdateCanvas that creates whatever id it is given
CreateOrUpdateCanvasA_AlwaysCreate(cv, releases, existingCanvasId, co, eo, now, newId) ==
    CreatePathA(cv, GenerateCanvasMarkdownA(releases, now), co, newId)

\* createOrUpdateCanvas of the file-store version
CreateOrUpdateCanvasA(cv, releases, existingCanvasId, co, eo, now, newId) ==
    IF existingCanvasId # 0
    THEN EditPathA(cv, GenerateCanvasMarkdownA(releases, now),
                   existingCanvasId, eo)
    ELSE CreatePathA(cv, GenerateCanvasMarkdownA(releases, now), co, newId)

\* updateReleasesListCanvas of the file-store version.
\* o holds the outcome of each external call of this run.
\* a saveCanvasMetadata that records the count of the entry file
SaveCanvasMetadata_StaleCount(st, canvasId, releases) ==
    [st EXCEPT !.meta = [present |-> TRUE, canvasId |-> canvasId,
                         releaseCount |-> Len(st.rels)]]

\* saveCanvasMetadata: the metadata file is overwritten
SaveCanvasMetadata(st, canvasId, releases) ==
    [st EXCEPT !.meta = [present |-> TRUE, canvasId |-> canvasId,
                         releaseCount |-> Len(releases)]]

\* a saveReleases that adds the new entry to the list the file holds
SaveReleases_Merge(st, releases) ==
    [st EXCEPT !.rels = Prepend(releases[1], st.rels)]

\* saveReleases: the entry file is overwritten with the list of the caller
SaveReleases(st, releases) == [st EXCEPT !.rels = releases]

\* What reading the entry file gives: the list saved, a text that
\* JSON.parse rejects, or a JSON value that is not a list
LoadOutcomesA == {"ok", "corrupt", "nonlist"}

\* loadReleases: [] when the file cannot be parsed
LoadReleases(st, l) == IF l = "corrupt" THEN << >> ELSE st.rels

\* releases.unshift on a value that is not a list
UnshiftError ==
    Thrown("Error", "none", {}, "releases.unshift is not a function")

\* a handler that saves the metadata and the entries before it writes the
\* canvas
UpdateReleasesListCanvasA_SaveFirst(st, cv, ref, newRelease, o, now, newId) ==
    LET ch == GetChannelId(ref, o.list)
        metadata == st.meta
        releases == Prepend(newRelease, LoadReleases(st, o.load))
        cu == CreateOrUpdateCanvasA(cv, releases,
                  IF metadata.present THEN metadata.canvasId ELSE 0,
                  o.create, o.edit, now, newId)
        c1 == ch.calls \o << "writeMetadata", "writeReleases",
                              "conversations.info" >> \o cu.calls
        st2 == SaveReleases(SaveCanvasMetadata(st, metadata.canvasId,
                                               releases), releases)
    IN  IF ch.id = 0
        THEN Result(FALSE, "error:no_channel", NoErr, ch.calls, st, cv, 0)
        ELSE IF o.load = "nonlist"
        THEN Failed(UnshiftError, ch.calls, st, cv, 0, FALSE)
        ELSE IF ~cu.ok
        THEN Failed(cu.val, c1, st2, cu.canvas, 0, FALSE)
        ELSE Result(TRUE, "info:updated", NoErr, c1,
                    SaveCanvasMetadata(st2, cu.id, releases), cu.canvas, cu.id)

UpdateReleasesListCanvasA(st, cv, ref, newRelease, o, now, newId) ==
    LET ch == GetChannelId(ref, o.list)
        metadata == st.meta
        releases == Prepend(newRelease, LoadReleases(st, o.load))
        cu == CreateOrUpdateCanvasA(cv, releases,
                  IF metadata.present THEN metadata.canvasId ELSE 0,
                  o.create, o.edit, now, newId)
        c1 == ch.calls \o << "conversations.info" >> \o cu.calls
        c2 == c1 \o << "writeMetadata" >>
        c3 == c2 \o << "writeReleases" >>
        st1 == SaveCanvasMetadata(st, cu.id, releases)
        st2 == SaveReleases(st1, releases)
    IN  IF ch.id = 0
        THEN Result(FALSE, "error:no_channel", NoErr, ch.calls, st, cv, 0)
        ELSE IF o.load = "nonlist"
        THEN Failed(UnshiftError, ch.calls, st, cv, 0, FALSE)
        ELSE IF ~cu.ok
        THEN Failed(cu.val, c1, st, cu.canvas, 0, FALSE)
        ELSE IF o.metaWrite = "fail"
        THEN Failed(FsError, c2, st, cu.canvas, cu.id, FALSE)
        ELSE IF o.relWrite = "fail"
        THEN Failed(FsError, c3, st1, cu.canvas, cu.id, FALSE)
        ELSE Result(TRUE, "info:updated", NoErr, c3, st2, cu.canvas, cu.id)

---------------------------------------------------------------------------
(* Canvas-content version: src/src/releases-list.ts lines 484-1184 *)

\* release.repositoryName || 'Unknown Repository'
RepoName(r) == IF r.repo = "" THEN "Unknown Repository" ELSE r.repo

Named(name) == [NoEntry EXCEPT !.repo = name]

\* the keys of releasesByRepo, in insertion order
RECURSIVE RepoOrder(_)
RepoOrder(releases) ==
    IF releases = << >> THEN << >>
    ELSE LET first == RepoName(Head(releases))
             Other(x) == x # first
         IN  << first >> \o SelectSeq(RepoOrder(Tail(releases)), Other)

\* releasesByRepo.get(name)
RepoReleases(releases, name) ==
    LET InRepo(r) == RepoName(r) = name
    IN  SelectSeq(releases, InRepo)

\* the "Recent Releases" part: one header per repository, the first five
\* entries displayed in bold, the others as bullets
RECURSIVE RecentLinesB(_, _, _)
RecentLinesB(releases, order, totalDisplayed) ==
    IF order = << >> THEN << >>
    ELSE LET g == RepoReleases(releases, Head(order))
         IN  << Line("repoHeader", Named(Head(order)), 0) >>
               \o [i \in 1..Len(g) |->
                     IF totalDisplayed + i - 1 < RecentCount
                     THEN Line("recentBold", g[i], 0)
                     ELSE Line("bullet", g[i], 0)]
               \o RecentLinesB(releases, Tail(order), totalDisplayed + Len(g))

\* the "All Releases" part: every entry as a bullet under its repository
RECURSIVE AllLinesB(_, _)
AllLinesB(releases, order) ==
    IF order = << >> THEN << >>
    ELSE LET g == RepoReleases(releases, Head(order))
         IN  << Line("repoBold", Named(Head(order)), 0) >>
               \o [i \in 1..Len(g) |-> Line("bullet", g[i], 0)]
               \o AllLinesB(releases, Tail(order))

\* generateCanvasMarkdown of the canvas-content version
GenerateCanvasMarkdownB(releases, now) ==
    LET head == << Line("title", NoEntry, 0), Line("updated", NoEntry, now),
                   Line("recentHeader", NoEntry, 0) >>
        order == RepoOrder(releases)
        rest == IF Len(releases) > RecentCount
                THEN << Line("allHeader", NoEntry, Len(releases)) >>
                       \o AllLinesB(releases, order)
                ELSE << >>
    IN  IF Len(releases) = 0
        THEN head \o << Line("empty", NoEntry, 0) >>
        ELSE head \o RecentLinesB(releases, order, 0) \o rest
               \o StatLines(releases)
               \o << Line("legend", NoEntry, 0), Line("footer", NoEntry, 0) >>

\* The entry parseReleasesFromMarkdown builds from a line "**emoji link** •
\* date": the version is the whole link text, the flags follow the emoji,
\* no releaseUrl is set.
ParsedEntryB(e, repositoryName) ==
    Entry(e.version, e.changeType, e.changeType = "breaking",
          e.changeType = "config", e.changeType = "e2e",
          IF e.link = "plain" THEN "plain" ELSE "text", repositoryName)

\* parseReleasesFromMarkdown of the canvas-content version: the content is
\* split at the "#### repo" headers; in each section only "**...** • date"
\* whose bold text starts with a release emoji is an entry. A bullet line
\* "- emoji **link** • date" has the emoji outside the bold text and the
\* text before the first header is dropped.
RECURSIVE ParseFromB(_, _, _)
ParseFromB(md, i, repositoryName) ==
    IF i > Len(md) THEN << >>
    ELSE IF md[i].kind = "repoHeader"
         THEN ParseFromB(md, i + 1, md[i].e.repo)
    ELSE IF md[i].kind = "recentBold" /\ repositoryName # ""
         THEN << ParsedEntryB(md[i].e, repositoryName) >>
                \o ParseFromB(md, i + 1, repositoryName)
    ELSE ParseFromB(md, i + 1, repositoryName)

ParseReleasesFromMarkdownB(md) == ParseFromB(md, 1, "")

LoadOutcomes == {"ok", "notOk", "throws"}

\* discoverChannelCanvas of the canvas-content version: the file_id in the
\* channel properties, undefined when absent or when the call fails
DiscoverChannelCanvasB(cv, found) == IF found = 1 THEN cv.id ELSE 0

\* loadReleasesFromCanvas: files.info, then the parser; [] on any failure
LoadReleasesFromCanvasB(cv, canvasId, l) ==
    IF l = "ok" /\ cv.exists /\ cv.id = canvasId
    THEN ParseReleasesFromMarkdownB(cv.content)
    ELSE << >>

\* the catch block of the create path: every value is replaced by an Error
CreateErrorB(co) ==
    LET errorCode == IF co.kind = "notOk" \/ co.val.code = "none"
                     THEN "message" ELSE co.val.code
    IN  IF errorCode = "not_in_channel"
        THEN Thrown("Error", "none", {}, "Bot is not in channel")
        ELSE IF errorCode = "missing_scope"
        THEN Thrown("Error", "none", {"canvases:write"},
                    "Bot missing required permission")
        ELSE IF errorCode = "channel_canvas_already_exists"
        THEN Thrown("Error", "none", {},
                    "Channel canvas already exists but could not be discovered")
        ELSE IF errorCode = "canvas_creation_failed"
        THEN Thrown("Error", "none", {}, "Canvas creation failed. Possible causes")
        ELSE Thrown("Error", "none", {co.val.code},
                    "Canvas creation failed with error")

\* createOrUpdateCanvas of the canvas-content version. The content of a
\* create holds one entry and stays under the 10000 characters above which
\* a simplified content is created first.
CreateOrUpdateCanvasB(cv, releases, existingCanvasId, co, eo, now, newId) ==
    LET md == GenerateCanvasMarkdownB(releases, now)
    IN  IF existingCanvasId # 0
        THEN EditPathA(cv, md, existingCanvasId, eo)
        ELSE IF co.kind = "ok"
        THEN CUResult(TRUE, newId, NoErr,
                      << "conversations.info", "canvases.create" >>,
                      [exists |-> TRUE, id |-> newId, content |-> md])
        ELSE CUResult(FALSE, 0, CreateErrorB(co),
                      << "conversations.info", "canvases.create" >>, cv)

\* updateReleasesListCanvas of the canvas-content version
UpdateReleasesListCanvasB(st, cv, ref, newRelease, o, now, newId) ==
    LET ch == GetChannelId(ref, o.list)
        existingCanvasId == DiscoverChannelCanvasB(cv, o.found)
        loaded == IF existingCanvasId # 0
                  THEN LoadReleasesFromCanvasB(cv, existingCanvasId, o.load)
                  ELSE << >>
        releases == Prepend(newRelease, loaded)
        cu == CreateOrUpdateCanvasB(cv, releases, existingCanvasId,
                                    o.create, o.edit, now, newId)
        c1 == ch.calls \o << "conversations.info" >>
                \o (IF existingCanvasId # 0 THEN << "files.info" >> ELSE << >>)
                \o << "conversations.info" >> \o cu.calls
    IN  IF ch.id = 0
        THEN Result(FALSE, "error:no_channel", NoErr, ch.calls, st, cv, 0)
        ELSE IF ~cu.ok
        THEN Failed(cu.val, c1, st, cu.canvas, 0, FALSE)
        ELSE [Result(TRUE, "info:updated", NoErr, c1, st, cu.canvas, cu.id)
                EXCEPT !.lossy = existingCanvasId # 0 /\ o.load # "ok"]

---------------------------------------------------------------------------
(* Aggressive-discovery version: src/unnamed/part_006 lines 1-912 *)

\* badgeText.length > 0
HasBadges(e) == e.hasBreaking \/ e.hasConfig \/ e.hasE2E

\* The lines of the repository sections: "### repo", then one line
\* "- emoji **link** - date (Badges)" per entry
RECURSIVE RepoLinesC(_, _)
RepoLinesC(releases, order) ==
    IF order = << >> THEN << >>
    ELSE LET g == RepoReleases(releases, Head(order))
         IN  << Line("repoHeaderC", Named(Head(order)), 0) >>
               \o [i \in 1..Len(g) |-> Line("bulletC", g[i], 0)]
               \o RepoLinesC(releases, Tail(order))

\* the "Summary" block
SummaryLinesC(releases) ==
    << Line("statTotal", NoEntry, Len(releases)),
       Line("statBreaking", NoEntry, CountBreaking(releases)),
       Line("statConfig", NoEntry, CountConfig(releases)),
       Line("statE2E", NoEntry, CountE2E(releases)) >>

\* generateCanvasMarkdown of the aggressive-discovery version
GenerateCanvasMarkdownC(releases, now) ==
    LET head == << Line("title", NoEntry, 0), Line("updated", NoEntry, now),
                   Line("legend", NoEntry, 0),
                   Line("recentHeader", NoEntry, 0) >>
    IN  IF Len(releases) = 0
        THEN head \o << Line("empty", NoEntry, 0) >>
        ELSE head \o RepoLinesC(releases, RepoOrder(releases))
               \o SummaryLinesC(releases)
               \o << Line("footer", NoEntry, 0) >>

\* a line of a repository section that holds a "("
HasParenC(l) ==
    l.kind = "bulletC" /\ (l.e.link # "plain" \/ HasBadges(l.e))

\* The entry parseReleasesFromMarkdown builds from a matching line: the
\* version is the link text, no releaseUrl is set, the flags follow the
\* emoji. The date group [^(]+ ends at the badges when the line has some,
\* and runs over the following lines otherwise.
ParsedEntryC(e, repositoryName) ==
    [Entry(e.version, e.changeType, e.changeType = "breaking",
           e.changeType = "config", e.changeType = "e2e", "plain",
           repositoryName)
       EXCEPT !.date = IF HasBadges(e) THEN e.date ELSE "text"]

\* parseReleasesFromMarkdown of the aggressive-discovery version. The
\* content is split at the "### repo" headers and the text before the first
\* is dropped. A line matches when its version is a link "[v](url)". The
\* date of an entry with no badges takes the text up to the next "(" of the
\* section, and the match ends after the ")" that follows: the line that
\* holds it is not matched. inDate says that the date group is still open.
RECURSIVE ParseFromC(_, _, _, _)
ParseFromC(md, i, repositoryName, inDate) ==
    IF i > Len(md) THEN << >>
    ELSE IF md[i].kind = "repoHeaderC"
         THEN ParseFromC(md, i + 1, md[i].e.repo, FALSE)
    ELSE IF inDate
         THEN ParseFromC(md, i + 1, repositoryName, ~HasParenC(md[i]))
    ELSE IF md[i].kind = "bulletC" /\ repositoryName # ""
              /\ md[i].e.link # "plain"
         THEN << ParsedEntryC(md[i].e, repositoryName) >>
                \o ParseFromC(md, i + 1, repositoryName, ~HasBadges(md[i].e))
    ELSE ParseFromC(md, i + 1, repositoryName, FALSE)

ParseReleasesFromMarkdownC(md) == ParseFromC(md, 1, "", FALSE)

\* loadReleasesFromCanvas: files.info, then the parser; [] on any failure
LoadReleasesFromCanvasC(cv, canvasId, l) ==
    IF l = "ok" /\ cv.exists /\ cv.id = canvasId
    THEN ParseReleasesFromMarkdownC(cv.content)
    ELSE << >>

\* The discovery calls of updateReleasesListCanvas in the order they are
\* made: attempts 1 and 2 are discoverChannelCanvas (conversations.info,
\* files.list, canvases.list), attempt 3 is files.list on the channel and
\* attempt 4 files.list on the workspace.
DiscoveryCalls ==
    << "conversations.info", "files.list", "canvases.list",
       "conversations.info", "files.list", "canvases.list",
       "files.list", "files.list" >>

\* Attempt 2 starts with the one setTimeout of 2000 ms: it stands in the
\* call sequence after the three calls of attempt 1
WithDelay(calls) ==
    IF Len(calls) <= 3 THEN calls
    ELSE SubSeq(calls, 1, 3) \o << "setTimeout" >>
           \o SubSeq(calls, 4, Len(calls))

\* a discovery that makes every attempt whatever the earlier ones found
DiscoverC_NoStop(cv, found) ==
    [id |-> IF found # 0 THEN cv.id ELSE 0,
     calls |-> WithDelay(DiscoveryCalls)]

\* found is the number of the discovery call that finds the canvas, 0 when
\* none does (each answers nothing or throws; both are caught)
DiscoverC(cv, found) ==
    [id |-> IF found # 0 THEN cv.id ELSE 0,
     calls |-> WithDelay(IF found # 0 THEN SubSeq(DiscoveryCalls, 1, found)
                         ELSE DiscoveryCalls)]

EmergencyOutcomes == {"found", "absent", "throws"}

AlreadyExistsError ==
    Thrown("Error", "none", {},
           "Canvas already exists but could not be discovered or updated")

\* The channel_canvas_already_exists branch of createOrUpdateCanvas: an
\* emergency files.list, then canvases.edit of the file found with the
\* content that was to be created
EmergencyC(cv, md, em, eo) ==
    LET calls == << "conversations.info", "canvases.create", "files.list" >>
    IN  IF em = "found" /\ cv.exists
        THEN IF eo.kind = "ok"
             THEN CUResult(TRUE, cv.id, NoErr, calls \o << "canvases.edit" >>,
                           EditCanvas(cv, cv.id, md))
             ELSE CUResult(FALSE, 0, AlreadyExistsError,
                           calls \o << "canvases.edit" >>, cv)
        ELSE CUResult(FALSE, 0, AlreadyExistsError, calls, cv)

\* the catch block of the create path, the code not being
\* channel_canvas_already_exists; errorCode = error.data?.error ||
\* error.message
CreateErrorC(co) ==
    LET errorCode == IF co.kind = "notOk" \/ co.val.code = "none"
                     THEN "message" ELSE co.val.code
    IN  IF errorCode = "not_in_channel"
        THEN Thrown("Error", "none", {}, "Bot is not in channel")
        ELSE IF errorCode = "missing_scope"
        THEN Thrown("Error", "none", {"canvases:write"},
                    "Bot missing required permission")
        ELSE IF errorCode = "canvas_creation_failed"
        THEN Thrown("Error", "none", {}, "Canvas creation failed. Possible causes")
        ELSE Thrown("Error", "none", {co.val.code},
                    "Canvas creation failed with error")

\* a createOrUpdateCanvas with no emergency search
CreateOrUpdateCanvasC_NoEmergency(cv, releases, existingCanvasId, co, em, eo, now, newId) ==
    IF existingCanvasId # 0
    THEN EditPathA(cv, GenerateCanvasMarkdownC(releases, now),
                   existingCanvasId, eo)
    ELSE IF co.kind = "ok"
    THEN CUResult(TRUE, newId, NoErr,
                  << "conversations.info", "canvases.create" >>,
                  [exists |-> TRUE, id |-> newId,
                   content |-> GenerateCanvasMarkdownC(releases, now)])
    ELSE CUResult(FALSE, 0,
                  IF co.val.code = "channel_canvas_already_exists"
                  THEN AlreadyExistsError ELSE CreateErrorC(co),
                  << "conversations.info", "canvases.create" >>, cv)

\* createOrUpdateCanvas of the aggressive-discovery version
CreateOrUpdateCanvasC(cv, releases, existingCanvasId, co, em, eo, now, newId) ==
    LET md == GenerateCanvasMarkdownC(releases, now)
    IN  IF existingCanvasId # 0
        THEN EditPathA(cv, md, existingCanvasId, eo)
        ELSE IF co.kind = "ok"
        THEN CUResult(TRUE, newId, NoErr,
                      << "conversations.info", "canvases.create" >>,
                      [exists |-> TRUE, id |-> newId, content |-> md])
        ELSE IF co.kind = "throw"
                  /\ co.val.code = "channel_canvas_already_exists"
        THEN EmergencyC(cv, md, em, eo)
        ELSE CUResult(FALSE, 0, CreateErrorC(co),
                      << "conversations.info", "canvases.create" >>, cv)

\* updateReleasesListCanvas of the aggressive-discovery version
UpdateReleasesListCanvasC(st, cv, ref, newRelease, o, now, newId) ==
    LET ch == GetChannelId(ref, o.list)
        d == DiscoverC(cv, o.found)
        loaded == IF d.id # 0
                  THEN LoadReleasesFromCanvasC(cv, d.id, o.load)
                  ELSE << >>
        releases == Prepend(newRelease, loaded)
        cu == CreateOrUpdateCanvasC(cv, releases, d.id, o.create,
                                    o.emergency, o.edit, now, newId)
        c1 == ch.calls \o d.calls
                \o (IF d.id # 0 THEN << "files.info" >> ELSE << >>)
                \o << "conversations.info" >> \o cu.calls
    IN  IF ch.id = 0
        THEN Result(FALSE, "error:no_channel", NoErr, ch.calls, st, cv, 0)
        ELSE IF ~cu.ok
        THEN Failed(cu.val, c1, st, cu.canvas, 0, TRUE)
        ELSE [Result(TRUE, "info:updated", NoErr, c1, st, cu.canvas, cu.id)
                EXCEPT !.lossy = d.id # 0 /\ o.load # "ok"]

---------------------------------------------------------------------------
(* State machine *)

Count(calls, name) == Cardinality({i \in DOMAIN calls : calls[i] = name})

\* what is kept of a call's result
LastOf(r, variant, version, ref, o) ==
    [variant |-> variant, version |-> version, ref |-> ref, list |-> o.list,
     found |-> o.found, load |-> o.load, emergency |-> o.emergency,
     edit |-> o.edit.kind, create |-> o.create.val.code,
     createKind |-> o.create.kind,
     metaWrite |-> o.metaWrite, relWrite |-> o.relWrite,
     ret |-> r.ret, rejected |-> r.rejected, log |-> r.log, text |-> r.text,
     calls |-> r.calls, target |-> r.target]

\* The outcomes of the external calls of one call. found is the number of
\* the discovery call that finds the canvas (0: none does); a call that is
\* not reached has the outcome "ok".
Outcomes(lo, found, l, co, em, eo, mw, rw) ==
    [list |-> lo, found |-> found, load |-> l, create |-> co,
     emergency |-> em, edit |-> eo, metaWrite |-> mw, relWrite |-> rw]

NoLast ==
    LastOf(NoResult, "none", 0, "C1",
           Outcomes("found", 0, "ok", Ok, "none", Ok, "ok", "ok"))

Min(a, b) == IF a < b THEN a ELSE b

\* the history after a call with result r, made from canvas cv and store st
HistAfter(h, r, cv, st) ==
    LET created == r.canvas.exists /\ ~cv.exists
        issued == Count(r.calls, "canvases.create") > 0
    IN  [ok |-> h.ok + (IF r.ret /\ ~r.rejected THEN 1 ELSE 0),
         createsOk |-> h.createsOk + (IF created THEN 1 ELSE 0),
         createdId |-> IF created /\ h.createsOk = 0 THEN r.canvas.id
                       ELSE h.createdId,
         createAfter |-> h.createAfter \/ (issued /\ h.createsOk > 0),
         createAfterMeta |-> h.createAfterMeta \/ (issued /\ st.meta.present),
         firstOk |-> IF r.ret /\ ~r.rejected /\ h.ok = 0 THEN r.calls
                     ELSE h.firstOk,
         writes |-> Min(2, h.writes + (IF r.target # 0 THEN 1 ELSE 0)),
         lossy |-> h.lossy \/ r.lossy]

\* What one run of the action leaves: the message posted, the log, the
\* outputs set and the failure set. update is what updateReleasesListCanvas
\* resolved to ("none" when it was not called).
NoOut ==
    [runs |-> 0, failed |-> FALSE, message |-> "", notificationSent |-> "",
     releasesListUpdated |-> "", warned |-> FALSE, posted |-> FALSE,
     emoji |-> "", label |-> "", colour |-> "",
     flags |-> << FALSE, FALSE, FALSE >>, update |-> "none",
     hasVersion |-> TRUE, token |-> "input", maintain |-> FALSE,
     detail |-> "",
     postCalled |-> FALSE, post |-> "none"]

\* an invocation that has not started
Idle == [pc |-> "idle", version |-> 0, metadata |-> NoMeta, prior |-> << >>,
         releases |-> << >>, canvasId |-> 0, ret |-> "none"]

NoProc == [round |-> 0, p |-> [i \in {1, 2} |-> Idle]]

NoPure == [op |-> "none", input |-> << >>, result |-> << >>]

Init ==
    /\ store = [meta |-> NoMeta, rels |-> << >>]
    /\ canvas = [exists |-> FALSE, id |-> 0, content |-> << >>]
    /\ last = NoLast
    /\ hist = [ok |-> 0, createsOk |-> 0, createdId |-> 0,
               createAfter |-> FALSE, createAfterMeta |-> FALSE,
               firstOk |-> << >>, writes |-> 0, lossy |-> FALSE]
    /\ out = NoOut
    /\ proc = NoProc
    /\ pure = NoPure

\* the release of the n-th tag, as run() builds it in the file-store runs
ReleaseA(n) == NewRelease(n, n % 2 = 0, n % 3 = 0, n % 5 = 0, n % 2 = 1)

\* The outcomes of the external calls of one file-store call. A call that
\* is not reached has the outcome "ok".
OutcomesA(st, cv, ref) ==
    LET O(lo, co, eo, mw, rw) ==
            Outcomes(lo, 0, "ok", co, "none", eo, mw, rw)
        lists == IF ref = "C1" THEN {"found"} ELSE ListOutcomes
        docs == IF st.meta.present
                THEN {<<Ok, eo>> : eo \in EditOutcomes}
                ELSE {<<co, Ok>> : co \in CreateOutcomes(cv)}
    IN  {O(lo, Ok, Ok, "ok", "ok") : lo \in lists \ {"found"}}
          \cup {O("found", d[1], d[2], "ok", "ok") :
                  d \in {x \in docs : x[1] # Ok \/ x[2] # Ok}}
          \cup {O("found", d[1], d[2], w[1], w[2]) :
                  d \in {x \in docs : x[1] = Ok /\ x[2] = Ok},
                  w \in {<<"fail", "ok">>, <<"ok", "fail">>, <<"ok", "ok">>}}

\* One call of updateReleasesListCanvas (file-store version). A failed call
\* is followed by a retry of the same release.
UpdateA ==
    /\ hist.ok < MaxRuns
    /\ \E ref \in ChannelRefs :
         \E o \in OutcomesA(store, canvas, ref) :
           LET r == UpdateReleasesListCanvasA(store, canvas, ref,
                        ReleaseA(hist.ok + 1), o, hist.ok + 1,
                        hist.createsOk + 1)
           IN  /\ store' = r.store
               /\ canvas' = r.canvas
               /\ last' = LastOf(r, "A", hist.ok + 1, ref, o)
               /\ hist' = HistAfter(hist, r, canvas, store)
    /\ UNCHANGED <<out, proc, pure>>

\* the release the n-th canvas-content run is given
ReleaseB(n) == NewRelease(n, n % 2 = 0, n % 3 = 0, FALSE, n % 2 = 1)

\* The outcomes of the external calls of one canvas-content call
OutcomesB(cv, ref) ==
    LET O(lo, d, l, co, eo) ==
            Outcomes(lo, d, l, co, "none", eo, "ok", "ok")
        lists == IF ref = "C1" THEN {"found"} ELSE ListOutcomes
    IN  {O(lo, 0, "ok", Ok, Ok) : lo \in lists \ {"found"}}
          \cup {O("found", 1, l, Ok, eo) :
                  l \in LoadOutcomes,
                  eo \in {x \in EditOutcomes : cv.exists}}
          \cup {O("found", 0, "ok", co, Ok) : co \in CreateOutcomes(cv)}

\* One call of updateReleasesListCanvas (canvas-content version)
UpdateB ==
    /\ hist.ok < MaxRunsB
    /\ \E ref \in ChannelRefs :
         \E o \in OutcomesB(canvas, ref) :
           LET r == UpdateReleasesListCanvasB(store, canvas, ref,
                        ReleaseB(hist.ok + 1), o, hist.ok + 1,
                        hist.createsOk + 1)
           IN  /\ store' = r.store
               /\ canvas' = r.canvas
               /\ last' = LastOf(r, "B", hist.ok + 1, ref, o)
               /\ hist' = HistAfter(hist, r, canvas, store)
    /\ UNCHANGED <<out, proc, pure>>

\* the release the n-th aggressive-discovery run is given
ReleaseC(n) == NewRelease(n, n % 2 = 0, FALSE, n % 3 = 0, n # 3)

\* The outcomes of the external calls of one aggressive-discovery call
OutcomesC(cv, ref) ==
    LET lists == IF ref = "C1" THEN {"found"} ELSE ListOutcomes
    IN  {Outcomes(lo, 0, "ok", Ok, "none", Ok, "ok", "ok") :
           lo \in lists \ {"found"}}
          \cup {Outcomes("found", k, l, Ok, "none", Ok, "ok", "ok") :
                  k \in {j \in 1..Len(DiscoveryCalls) : cv.exists},
                  l \in LoadOutcomes}
          \cup {Outcomes("found", 1, "ok", Ok, "none", eo, "ok", "ok") :
                  eo \in {x \in EditOutcomes : cv.exists}}
          \cup {Outcomes("found", 0, "ok", co, "none", Ok, "ok", "ok") :
                  co \in {x \in CreateOutcomes(cv) : ~cv.exists}}
          \cup {Outcomes("found", 0, "ok", co, em, Ok, "ok", "ok") :
                  co \in {x \in CreateOutcomes(cv) : cv.exists},
                  em \in EmergencyOutcomes \ {"found"}}
          \cup {Outcomes("found", 0, "ok", co, "found", eo, "ok", "ok") :
                  co \in {x \in CreateOutcomes(cv) : cv.exists},
                  eo \in EditOutcomes}

\* One call of updateReleasesListCanvas (aggressive-discovery version)
UpdateC ==
    /\ hist.ok < MaxRunsC
    /\ \E ref \in ChannelRefs :
         \E o \in OutcomesC(canvas, ref) :
           LET r == UpdateReleasesListCanvasC(store, canvas, ref,
                        ReleaseC(hist.ok + 1), o, hist.ok + 1,
                        hist.createsOk + 1)
           IN  /\ store' = r.store
               /\ canvas' = r.canvas
               /\ last' = LastOf(r, "C", hist.ok + 1, ref, o)
               /\ hist' = HistAfter(hist, r, canvas, store)
    /\ UNCHANGED <<out, proc, pure>>

NextC == UpdateC

SpecC == Init /\ [][NextC]_vars

NextB == UpdateB

SpecB == Init /\ [][NextB]_vars

---------------------------------------------------------------------------
(* The action: run of src/unnamed/part_004 (src/src/main.ts is the same
   without the e2e analysis) and sendReleaseNotification of src/src/slack.ts *)

\* releaseEmoji and releaseType of the title
ReleaseTitle(hasBreakingChanges, hasConfigChanges, hasE2ETests) ==
    IF hasBreakingChanges
    THEN [emoji |-> "warning rocket", label |-> "BREAKING RELEASE"]
    ELSE IF hasConfigChanges
    THEN [emoji |-> "gear rocket", label |-> "CONFIG UPDATE"]
    ELSE IF hasE2ETests
    THEN [emoji |-> "test-tube rocket", label |-> "E2E WORKFLOW RELEASE"]
    ELSE [emoji |-> "rocket", label |-> "New Release"]

\* a colour choice that looks at the config flag first
MessageColor_ConfigFirst(hasBreakingChanges, hasConfigChanges, hasE2ETests) ==
    IF hasConfigChanges THEN "#ffcc00"
    ELSE IF hasBreakingChanges THEN "#ff9900"
    ELSE IF hasE2ETests THEN "#00bcd4"
    ELSE "#36a64f"

\* messageColor of the attachment
MessageColor(hasBreakingChanges, hasConfigChanges, hasE2ETests) ==
    IF hasBreakingChanges THEN "#ff9900"
    ELSE IF hasConfigChanges THEN "#ffcc00"
    ELSE IF hasE2ETests THEN "#00bcd4"
    ELSE "#36a64f"

PostOutcomes == {"ok", "notOk", "throwsError", "throwsValue"}

\* a sendReleaseNotification that takes an answer that is not ok for sent
SendReleaseNotification_NotOkSent(hb, hc, he, po) ==
    [sent |-> po \in {"ok", "notOk"},
     emoji |-> ReleaseTitle(hb, hc, he).emoji,
     label |-> ReleaseTitle(hb, hc, he).label,
     colour |-> MessageColor(hb, hc, he),
     thrown |-> IF po \in {"ok", "notOk"} THEN NoErr
                ELSE IF po = "throwsError"
                THEN Thrown("Error", "none", {}, "An API error occurred")
                ELSE Thrown("Object", "none", {}, "")]

\* sendReleaseNotification: the title and the colour, then chat.postMessage;
\* an answer that is not ok is thrown as an Error and every error rethrown
SendReleaseNotification(hb, hc, he, po) ==
    [sent |-> po = "ok",
     emoji |-> ReleaseTitle(hb, hc, he).emoji,
     label |-> ReleaseTitle(hb, hc, he).label,
     colour |-> MessageColor(hb, hc, he),
     thrown |-> IF po = "ok" THEN NoErr
                ELSE IF po = "notOk"
                THEN Thrown("Error", "none", {}, "Slack API error")
                ELSE IF po = "throwsError"
                THEN Thrown("Error", "none", {}, "An API error occurred")
                ELSE Thrown("Object", "none", {}, "")]

\* where the bot token comes from: the slack-bot-token input, else the
\* environment variable SLACK_APP_TOKEN_AGGLAYER_NOTIFY_RELEASE, else nowhere
TokenSources == {"input", "env", "none"}

\* a validation that accepts a run without a bot token
Validate_VersionOnly(hasVersion, token) ==
    IF ~hasVersion THEN "release-version is required" ELSE ""

\* the validation of the inputs: the message of the Error thrown, "" if none
Validate(hasVersion, token) ==
    IF ~hasVersion THEN "release-version is required"
    ELSE IF token = "none" THEN "slack-bot-token is required"
    ELSE ""

\* the catch block of run
SetFailed(o, val) ==
    [o EXCEPT !.failed = TRUE,
              !.message = IF val.shape = "Error"
                          THEN "Failed to send release notification"
                          ELSE "An unknown error occurred",
              !.detail = IF val.shape = "Error" THEN val.text ELSE ""]

\* a run that fails when the releases list was not updated
RunOut_FailOnFalse(runs, invalid, n, flags, maintain, r) ==
    LET o0 == [NoOut EXCEPT !.runs = runs, !.flags = flags]
        o1 == [o0 EXCEPT !.postCalled = TRUE,
                         !.posted = TRUE, !.emoji = n.emoji,
                         !.label = n.label, !.colour = n.colour]
    IN  IF invalid # "" THEN SetFailed(o0, Thrown("Error", "none", {}, invalid))
        ELSE IF ~n.sent
        THEN SetFailed([o0 EXCEPT !.postCalled = TRUE], n.thrown)
        ELSE IF maintain /\ ~r.ret
        THEN SetFailed([o1 EXCEPT !.update = "false"],
                       Thrown("Error", "none", {}, "Failed to update"))
        ELSE [o1 EXCEPT !.update = IF maintain THEN "true" ELSE "none",
                        !.notificationSent = "true",
                        !.releasesListUpdated =
                            IF maintain THEN "true" ELSE "false"]

\* What run leaves. invalid is the message of the validation, n the result
\* of sendReleaseNotification, r the result of updateReleasesListCanvas,
\* which is awaited only if maintain-releases-list is 'true'.
RunOut(runs, invalid, n, flags, maintain, r) ==
    LET o0 == [NoOut EXCEPT !.runs = runs, !.flags = flags]
        o1 == [o0 EXCEPT !.postCalled = TRUE,
                         !.posted = TRUE, !.emoji = n.emoji,
                         !.label = n.label, !.colour = n.colour]
    IN  IF invalid # "" THEN SetFailed(o0, Thrown("Error", "none", {}, invalid))
        ELSE IF ~n.sent
        THEN SetFailed([o0 EXCEPT !.postCalled = TRUE], n.thrown)
        ELSE IF ~maintain
        THEN [o1 EXCEPT !.notificationSent = "true",
                        !.releasesListUpdated = "false"]
        ELSE IF r.rejected
        THEN SetFailed([o1 EXCEPT !.update = "rejected"],
                       Thrown("Error", "none", {},
                              "errorMessage.includes is not a function"))
        ELSE [o1 EXCEPT !.update = IF r.ret THEN "true" ELSE "false",
                        !.warned = ~r.ret,
                        !.notificationSent = "true",
                        !.releasesListUpdated =
                            IF r.ret THEN "true" ELSE "false"]

\* the inputs of one run and the outcomes of its external calls; what is
\* not reached has one value
RunInputs(st, cv) ==
    LET In(hv, tk, f, url, po, m, ref, o) ==
            [hasVersion |-> hv, token |-> tk, flags |-> f, hasUrl |-> url,
             post |-> po, maintain |-> m, ref |-> ref, o |-> o]
        none == Outcomes("found", 0, "ok", Ok, "none", Ok, "ok", "ok")
        Flags == {<< hb, hc, he >> : hb \in BOOLEAN, hc \in BOOLEAN,
                                     he \in BOOLEAN}
    IN  {In(FALSE, tk, << FALSE, FALSE, FALSE >>, FALSE, "ok", m, "C1", none) :
           tk \in TokenSources, m \in BOOLEAN}
          \cup {In(TRUE, "none", << FALSE, FALSE, FALSE >>, FALSE, "ok", m,
                   "C1", none) : m \in BOOLEAN}
          \cup {In(TRUE, "input", f, FALSE, po, m, "C1", none) :
                  f \in Flags, po \in PostOutcomes \ {"ok"}, m \in BOOLEAN}
          \cup {In(TRUE, "input", f, FALSE, "ok", FALSE, "C1", none) :
                  f \in Flags}
          \cup {In(TRUE, "env", << FALSE, FALSE, FALSE >>, FALSE, "ok", FALSE,
                   "C1", none)}
          \cup UNION {{In(TRUE, "input", f, FALSE, "ok", TRUE, ref, o) :
                         f \in Flags,
                         o \in OutcomesA(st, cv, ref)} : ref \in ChannelRefs}
          \cup UNION {{In(TRUE, "input", << FALSE, FALSE, FALSE >>, TRUE, "ok",
                          TRUE, ref, o) :
                         o \in OutcomesA(st, cv, ref)} : ref \in ChannelRefs}

\* One run of the action
Run ==
    /\ out.runs < MaxRunsMain
    /\ \E i \in RunInputs(store, canvas) :
         LET invalid == Validate(i.hasVersion, i.token)
             n == SendReleaseNotification(i.flags[1], i.flags[2], i.flags[3],
                                          i.post)
             reached == invalid = "" /\ n.sent /\ i.maintain
             rel == NewRelease(out.runs + 1, i.flags[1], i.flags[2],
                               i.flags[3], i.hasUrl)
             r == UpdateReleasesListCanvasA(store, canvas, i.ref, rel, i.o,
                      out.runs + 1, hist.createsOk + 1)
         IN  /\ out' = [RunOut(out.runs + 1, invalid, n, i.flags,
                               i.maintain, r)
                          EXCEPT !.hasVersion = i.hasVersion,
                                 !.token = i.token,
                                 !.maintain = i.maintain,
                                 !.post = IF invalid = "" THEN i.post
                                          ELSE "none"]
             /\ store' = IF reached THEN r.store ELSE store
             /\ canvas' = IF reached THEN r.canvas ELSE canvas
             /\ last' = IF reached
                        THEN LastOf(r, "A", out.runs + 1, i.ref, i.o)
                        ELSE last
             /\ hist' = IF reached THEN HistAfter(hist, r, canvas, store)
                        ELSE hist
    /\ UNCHANGED <<proc, pure>>

NextMain == Run

SpecMain == Init /\ [][NextMain]_vars

---------------------------------------------------------------------------
(* Two invocations of updateReleasesListCanvas (file-store version) for the
   channel C1, interleaved at their awaits: the load of the metadata and of
   the entries, the canvas call, the metadata write, the entry write *)

Procs == {1, 2}

\* loadCanvasMetadata and loadReleases, then unshift and splice
Load(p) ==
    /\ proc.p[p].pc = "idle"
    /\ proc' = [proc EXCEPT !.p[p] =
                  [Idle EXCEPT !.pc = "loaded",
                               !.version = 2 * proc.round + p,
                               !.metadata = store.meta,
                               !.prior = store.rels,
                               !.releases =
                                   Prepend(ReleaseA(2 * proc.round + p),
                                           store.rels)]]
    /\ UNCHANGED <<store, canvas, last, hist, out, pure>>

\* getChannelInfo and createOrUpdateCanvas; a failure ends the invocation
\* in the catch block
WriteCanvas(p) ==
    /\ proc.p[p].pc = "loaded"
    /\ \E co \in CreateOutcomes(canvas), eo \in EditOutcomes :
         LET me == proc.p[p]
             cu == CreateOrUpdateCanvasA(canvas, me.releases,
                       IF me.metadata.present THEN me.metadata.canvasId
                       ELSE 0,
                       co, eo, me.version, canvas.id + 1)
         IN  /\ canvas' = cu.canvas
             /\ proc' = [proc EXCEPT !.p[p] =
                   IF cu.ok
                   THEN [me EXCEPT !.pc = "written", !.canvasId = cu.id]
                   ELSE [me EXCEPT !.pc = "done",
                                   !.ret = IF CatchLog(cu.val, FALSE) = "rejected"
                                           THEN "rejected" ELSE "false"]]
    /\ UNCHANGED <<store, last, hist, out, pure>>

\* saveCanvasMetadata
WriteMetadata(p) ==
    /\ proc.p[p].pc = "written"
    /\ \E w \in WriteOutcomes :
         LET me == proc.p[p]
         IN  IF w = "ok"
             THEN /\ store' = SaveCanvasMetadata(store, me.canvasId,
                                                 me.releases)
                  /\ proc' = [proc EXCEPT !.p[p].pc = "metadataSaved"]
             ELSE /\ store' = store
                  /\ proc' = [proc EXCEPT !.p[p].pc = "done",
                                          !.p[p].ret = "false"]
    /\ UNCHANGED <<canvas, last, hist, out, pure>>

\* saveReleases, then return true
WriteReleases(p) ==
    /\ proc.p[p].pc = "metadataSaved"
    /\ \E w \in WriteOutcomes :
         IF w = "ok"
         THEN /\ store' = SaveReleases(store, proc.p[p].releases)
              /\ proc' = [proc EXCEPT !.p[p].pc = "done",
                                      !.p[p].ret = "true"]
         ELSE /\ store' = store
              /\ proc' = [proc EXCEPT !.p[p].pc = "done",
                                      !.p[p].ret = "false"]
    /\ UNCHANGED <<canvas, last, hist, out, pure>>

\* the next two releases are published
NextRound ==
    /\ \A p \in Procs : proc.p[p].pc = "done"
    /\ proc.round < MaxRounds
    /\ proc' = [round |-> proc.round + 1, p |-> [i \in Procs |-> Idle]]
    /\ UNCHANGED <<store, canvas, last, hist, out, pure>>

NextConc ==
    \/ \E p \in Procs : Load(p)
    \/ \E p \in Procs : WriteCanvas(p)
    \/ \E p \in Procs : WriteMetadata(p)
    \/ \E p \in Procs : WriteReleases(p)
    \/ NextRound

SpecConc == Init /\ [][NextConc]_vars

---------------------------------------------------------------------------
(* The file-store version with an entry file that may not hold a list *)

\* The outcomes of one call, the read of the entry file included
OutcomesAD(st, cv, ref) ==
    {o \in OutcomesA(st, cv, ref) : o.list # "found"}
      \cup {[o EXCEPT !.load = l] :
              o \in {x \in OutcomesA(st, cv, ref) : x.list = "found"},
              l \in LoadOutcomesA \ {"nonlist"}}
      \cup {Outcomes("found", 0, "nonlist", Ok, "none", Ok, "ok", "ok")}

UpdateAD ==
    /\ hist.ok < MaxRunsD
    /\ \E ref \in ChannelRefs :
         \E o \in OutcomesAD(store, canvas, ref) :
           LET r == UpdateReleasesListCanvasA(store, canvas, ref,
                        ReleaseA(hist.ok + 1), o, hist.ok + 1,
                        hist.createsOk + 1)
           IN  /\ store' = r.store
               /\ canvas' = r.canvas
               /\ last' = LastOf(r, "A", hist.ok + 1, ref, o)
               /\ hist' = HistAfter(hist, r, canvas, store)
    /\ UNCHANGED <<out, proc, pure>>

NextDegrade == UpdateAD

SpecDegrade == Init /\ [][NextDegrade]_vars

---------------------------------------------------------------------------
(* generateCanvasMarkdown followed by parseReleasesFromMarkdown, in the
   canvas-content version and in the aggressive-discovery version *)

\* the entries run() can build for one version
EntriesOf(n) ==
    {NewRelease(n, hb, hc, he, url) :
       hb \in BOOLEAN, hc \in BOOLEAN, he \in BOOLEAN, url \in BOOLEAN}

\* The entry lists rendered: every list of at most two entries, and the
\* lists of up to MaxLenRT plain entries, newest first
ListsRT ==
    {<< >>}
      \cup {<< e >> : e \in EntriesOf(1)}
      \cup {<< e2, e1 >> : e2 \in EntriesOf(2), e1 \in EntriesOf(1)}
      \cup {[i \in 1..n |-> NewRelease(n + 1 - i, FALSE, FALSE, FALSE, FALSE)] :
              n \in 3..MaxLenRT}

InitRT ==
    /\ store = [meta |-> NoMeta, rels |-> << >>]
    /\ canvas = [exists |-> FALSE, id |-> 0, content |-> << >>]
    /\ last = NoLast
    /\ hist = [ok |-> 0, createsOk |-> 0, createdId |-> 0,
               createAfter |-> FALSE, createAfterMeta |-> FALSE,
               firstOk |-> << >>, writes |-> 0, lossy |-> FALSE]
    /\ out = NoOut
    /\ proc = NoProc
    /\ pure \in {[op |-> "input", input |-> l, result |-> << >>] : l \in ListsRT}

RoundTripB ==
    /\ pure.op = "input"
    /\ pure' = [pure EXCEPT
                  !.op = "roundTripB",
                  !.result = ParseReleasesFromMarkdownB(
                                 GenerateCanvasMarkdownB(pure.input, 1))]
    /\ UNCHANGED <<store, canvas, last, hist, out, proc>>

RoundTripC ==
    /\ pure.op = "input"
    /\ pure' = [pure EXCEPT
                  !.op = "roundTripC",
                  !.result = ParseReleasesFromMarkdownC(
                                 GenerateCanvasMarkdownC(pure.input, 1))]
    /\ UNCHANGED <<store, canvas, last, hist, out, proc>>

NextRT == RoundTripB \/ RoundTripC

SpecRT == InitRT /\ [][NextRT]_vars

---------------------------------------------------------------------------
(* generateCanvasMarkdown called twice on one entry list, at the minutes t1
   and t2 of the clock read by new Date() *)

InitRender ==
    /\ store = [meta |-> NoMeta, rels |-> << >>]
    /\ canvas = [exists |-> FALSE, id |-> 0, content |-> << >>]
    /\ last = NoLast
    /\ hist = [ok |-> 0, createsOk |-> 0, createdId |-> 0,
               createAfter |-> FALSE, createAfterMeta |-> FALSE,
               firstOk |-> << >>, writes |-> 0, lossy |-> FALSE]
    /\ out = NoOut
    /\ proc = NoProc
    /\ pure \in {[op |-> "input",
                  input |-> [releases |-> l, t1 |-> t1, t2 |-> t2],
                  result |-> << >>] :
                   l \in ListsRT, t1 \in 1..MaxClock, t2 \in 1..MaxClock}

RenderTwiceA ==
    /\ pure.op = "input"
    /\ pure' = [pure EXCEPT
                  !.op = "renderA",
                  !.result =
                     << GenerateCanvasMarkdownA(pure.input.releases,
                                                pure.input.t1),
                        GenerateCanvasMarkdownA(pure.input.releases,
                                                pure.input.t2) >>]
    /\ UNCHANGED <<store, canvas, last, hist, out, proc>>

RenderTwiceB ==
    /\ pure.op = "input"
    /\ pure' = [pure EXCEPT
                  !.op = "renderB",
                  !.result =
                     << GenerateCanvasMarkdownB(pure.input.releases,
                                                pure.input.t1),
                        GenerateCanvasMarkdownB(pure.input.releases,
                                                pure.input.t2) >>]
    /\ UNCHANGED <<store, canvas, last, hist, out, proc>>

NextRender == RenderTwiceA \/ RenderTwiceB

SpecRender == InitRender /\ [][NextRender]_vars

---------------------------------------------------------------------------
(* The body of the chat message: sendReleaseNotification of src/src/slack.ts
   and the three formatters. A text is the sequence of its lines' contents
   and of its line feeds, NL standing for one "\n". *)

NL == "nl"

\* n times the line feed and the bullet
Bullets(n, what) == [i \in 1..(2 * n) |-> IF i % 2 = 1 THEN NL ELSE what]

\* String.prototype.trimEnd on a text: the trailing line feeds are dropped
RECURSIVE TrimEnd(_)
TrimEnd(t) ==
    IF t # << >> /\ t[Len(t)] = NL THEN TrimEnd(SubSeq(t, 1, Len(t) - 1))
    ELSE t

\* the analyses analyzeBreakingChanges, analyzeConfigChanges and
\* analyzeE2ETests can return, by the lengths of their lists
BreakingAnalyses ==
    {[hasBreakingChanges |-> FALSE, commits |-> 0, notes |-> 0]}
      \cup {[hasBreakingChanges |-> TRUE, commits |-> c, notes |-> n] :
              c \in 0..MaxItems, n \in 0..MaxItems}

ConfigAnalyses ==
    {[hasConfigChanges |-> l + d > 0, links |-> l, diffs |-> d] :
       l \in 0..MaxItems, d \in 0..MaxItems}

E2EAnalyses ==
    {[hasE2ETests |-> FALSE, links |-> 0]}
      \cup {[hasE2ETests |-> TRUE, links |-> l] : l \in 0..MaxItems}

FormatBreakingChangesForSlack(a) ==
    IF ~a.hasBreakingChanges THEN << >>
    ELSE << NL, NL, "BREAKING CHANGES DETECTED" >>
           \o (IF a.commits > 0
               THEN << NL, NL, "Conventional Commit Breaking Changes:" >>
                      \o Bullets(a.commits, "commit")
               ELSE << >>)
           \o Bullets(a.notes, "change")

FormatConfigChangesForSlack(a) ==
    IF ~a.hasConfigChanges THEN << >>
    ELSE << NL, NL, "CONFIGURATION CHANGES" >>
           \o (IF a.links > 0
               THEN << NL, NL, "Configuration Files:" >>
                      \o Bullets(a.links, "link")
               ELSE << >>)
           \o (IF a.diffs > 0
               THEN << NL, NL, "Configuration Updates:" >>
                      \o Bullets(a.diffs, "diff")
               ELSE << >>)

\* the two lines of every workflow link, a blank line after them
RECURSIVE WorkflowLines(_)
WorkflowLines(n) ==
    IF n = 0 THEN << >>
    ELSE << "workflow", NL, "Status", NL, NL >> \o WorkflowLines(n - 1)

FormatE2ETestsForSlack(a) ==
    IF ~a.hasE2ETests THEN << >>
    ELSE TrimEnd(<< NL, NL, "E2E WORKFLOWS DETECTED", NL, NL >>
                   \o WorkflowLines(a.links))

\* message += text, with one line feed first if there is content above
AddSection(message, text) ==
    IF text = << >> THEN message
    ELSE (IF message # << >> THEN message \o << NL >> ELSE message) \o text

\* a body that shows the section of the label alone
MessageBody_LabelOnly(custom, breaking, config, e2e, hasUrl) ==
    LET m0 == IF custom THEN << "custom", NL >> ELSE << >>
        t  == IF breaking.hasBreakingChanges
              THEN FormatBreakingChangesForSlack(breaking)
              ELSE IF config.hasConfigChanges
              THEN FormatConfigChangesForSlack(config)
              ELSE FormatE2ETestsForSlack(e2e)
        m1 == AddSection(m0, t)
        m2 == IF m1 = << >> THEN << "New release is now available!" >> ELSE m1
        m3 == IF hasUrl THEN m2 \o << NL, NL, "View Release" >> ELSE m2
    IN  m3 \o << NL, NL, "Released at" >>

\* the message text of sendReleaseNotification
MessageBody(custom, breaking, config, e2e, hasUrl) ==
    LET breakingChangesText == FormatBreakingChangesForSlack(breaking)
        configChangesText == FormatConfigChangesForSlack(config)
        e2eTestsText == FormatE2ETestsForSlack(e2e)
        m0 == IF custom THEN << "custom", NL >> ELSE << >>
        m1 == AddSection(AddSection(AddSection(m0, breakingChangesText),
                                    configChangesText), e2eTestsText)
        m2 == IF m1 = << >> /\ ~custom /\ breakingChangesText = << >>
                 /\ configChangesText = << >> /\ e2eTestsText = << >>
              THEN << "New release is now available!" >>
              ELSE m1
        m3 == IF hasUrl
              THEN (IF m2 # << >> THEN m2 \o << NL, NL >> ELSE m2)
                     \o << "View Release" >>
              ELSE m2
    IN  (IF m3 # << >> THEN m3 \o << NL, NL >> ELSE m3) \o << "Released at" >>

InitBody ==
    /\ store = [meta |-> NoMeta, rels |-> << >>]
    /\ canvas = [exists |-> FALSE, id |-> 0, content |-> << >>]
    /\ last = NoLast
    /\ hist = [ok |-> 0, createsOk |-> 0, createdId |-> 0,
               createAfter |-> FALSE, createAfterMeta |-> FALSE,
               firstOk |-> << >>, writes |-> 0, lossy |-> FALSE]
    /\ out = NoOut
    /\ proc = NoProc
    /\ pure \in {[op |-> "input",
                  input |-> [custom |-> cm, breaking |-> b, config |-> c,
                             e2e |-> e, hasUrl |-> u],
                  result |-> << >>] :
                   cm \in BOOLEAN, b \in BreakingAnalyses,
                   c \in ConfigAnalyses, e \in E2EAnalyses, u \in BOOLEAN}

\* the title, the colour and the text sendReleaseNotification posts
BuildMessage ==
    /\ pure.op = "input"
    /\ LET i == pure.input
           n == SendReleaseNotification(i.breaking.hasBreakingChanges,
                    i.config.hasConfigChanges, i.e2e.hasE2ETests, "ok")
       IN  pure' = [pure EXCEPT
                      !.op = "message",
                      !.result = [label |-> n.label, emoji |-> n.emoji,
                                  colour |-> n.colour,
                                  body |-> MessageBody(i.custom, i.breaking,
                                               i.config, i.e2e, i.hasUrl)]]
    /\ UNCHANGED <<store, canvas, last, hist, out, proc>>

NextBody == BuildMessage

SpecBody == InitBody /\ [][NextBody]_vars

---------------------------------------------------------------------------
(* The release notes and analyzeBreakingChanges, in the version of
   src/src/breaking-changes.ts and in the version of src/unnamed/part_007.
   The notes are a sequence of lines without blank or indented lines; a
   line is known by its place n and by what the patterns see in it. *)

HeadingKinds == {"breakingHeading", "e2eHeading", "configHeading", "heading"}

NoteLine(kind, n, keyword, url, e2e) ==
    [kind |-> kind, n |-> n, keyword |-> keyword, url |-> url, e2e |-> e2e,
     pos |-> FALSE, neg |-> FALSE, major |-> 0, config |-> FALSE]

\* "## BREAKING CHANGES", "## E2E Testing", "## Features"
Heading(kind, n) == NoteLine(kind, n, FALSE, "none", kind = "e2eHeading")
\* "- added a flag" and, with the keyword, "- removed the old endpoint"
Bullet(n, keyword) == NoteLine("bullet", n, keyword, "none", FALSE)
\* "feat!: new request format"
CommitLine(n) == NoteLine("commit", n, FALSE, "none", FALSE)
\* "release v2.0.0"
VersionLine(n) ==
    [NoteLine("version", n, FALSE, "none", FALSE) EXCEPT !.major = 2]
\* "release vX.0.0", for the major number X
VersionMention(n, major) == [VersionLine(n) EXCEPT !.major = major]

\* the lines that can stand at place n of the notes given to
\* analyzeBreakingChanges
BreakingLinesAt(n) ==
    {Heading("breakingHeading", n), Heading("heading", n), Bullet(n, FALSE),
     Bullet(n, TRUE), CommitLine(n), VersionLine(n)}

\* the notes of len lines, linesAt[n] being the lines that can stand at n
RECURSIVE NotesOver(_, _)
NotesOver(linesAt, len) ==
    IF len = 0 THEN {<< >>}
    ELSE {Append(t, l) : t \in NotesOver(linesAt, len - 1), l \in linesAt[len]}

\* the lines of the notes at the places of keep, in the order of the text
RECURSIVE Pick(_, _)
Pick(notes, keep) ==
    IF notes = << >> THEN << >>
    ELSE LET head == Pick(SubSeq(notes, 1, Len(notes) - 1), keep)
         IN  IF Len(notes) \in keep THEN Append(head, notes[Len(notes)])
             ELSE head

\* inBreakingSection / inE2ESection after the first i lines: set by the
\* heading of the section, cleared by any other heading
RECURSIVE InSectionAfter(_, _, _)
InSectionAfter(notes, i, headKind) ==
    IF i = 0 THEN FALSE
    ELSE IF notes[i].kind = headKind THEN TRUE
    ELSE IF notes[i].kind \in HeadingKinds THEN FALSE
    ELSE InSectionAfter(notes, i - 1, headKind)

\* the bullet lines met while in the section
SectionBullets(notes, headKind) ==
    Pick(notes, {i \in 1..Len(notes) :
                   notes[i].kind = "bullet"
                     /\ InSectionAfter(notes, i - 1, headKind)})

\* a sentence of prose, "we removed the flaky test" with the keyword
ProseLine(n, keyword) == NoteLine("text", n, keyword, "none", FALSE)
\* an empty line
BlankLine(n) == NoteLine("blank", n, FALSE, "none", FALSE)

\* The matches of breakingKeywordPatterns, in the order of the text. A
\* pattern is /^[\s-*•]+(?!#).*\b(keyword)\b.*$/gim: the line with the
\* keyword is not a heading, and the run of [\s-*•] before it is the bullet
\* sign of the line or, \s matching a line feed, the empty line above it.
KeywordMatches(notes) ==
    Pick(notes, {i \in 1..Len(notes) :
                   /\ notes[i].keyword
                   /\ notes[i].kind \notin HeadingKinds
                   /\ \/ notes[i].kind = "bullet"
                      \/ i > 1 /\ notes[i - 1].kind = "blank"})

\* [...new Set(list)]: the first occurrence of every value
RECURSIVE Dedupe(_)
Dedupe(list) ==
    IF list = << >> THEN << >>
    ELSE LET head == Dedupe(SubSeq(list, 1, Len(list) - 1))
             x == list[Len(list)]
         IN  IF \E i \in 1..Len(head) : head[i] = x THEN head
             ELSE Append(head, x)

\* the entries of releaseNoteBreaks pushed for the lines: the line n, with
\* or without its bullet sign
NoteBreaks(lines, bulletSign) ==
    [i \in 1..Len(lines) |-> [n |-> lines[i].n, bulletSign |-> bulletSign]]

\* conventionalCommitBreaks: the commit lines, by their places
CommitBreaks(notes) ==
    LET lines == Pick(notes, {i \in 1..Len(notes) : notes[i].kind = "commit"})
    IN  [i \in 1..Len(lines) |-> lines[i].n]

BreakingAnalysis(commits, noteBreaks, markers) ==
    [hasBreakingChanges |-> commits # << >> \/ noteBreaks # << >>
                              \/ markers # << >>,
     breakingChangeMarkers |-> markers,
     conventionalCommitBreaks |-> commits,
     releaseNoteBreaks |-> noteBreaks]

\* the major numbers pushed to versionMatches: those of 2 and above
VersionMatches(notes) ==
    LET lines == Pick(notes, {i \in 1..Len(notes) :
                                notes[i].kind = "version"
                                  /\ notes[i].major >= 2})
    IN  [i \in 1..Len(lines) |-> lines[i].major]

\* markers with one version marker for every mention, whatever its number
MarkersOf_PerMention(commits, found, sectionBreaks, keywordBreaks, notes) ==
    [i \in 1..Len(commits) |-> "Conventional commit breaking change"]
      \o (IF found /\ sectionBreaks # << >>
          THEN << "BREAKING CHANGE section found" >> ELSE << >>)
      \o [i \in 1..Len(keywordBreaks) |-> "Breaking change keyword detected"]
      \o [i \in 1..Len(Pick(notes, {j \in 1..Len(notes) :
                                      notes[j].kind = "version"})) |->
            "Major version bump detected"]

\* the markers pushed, in the order of the four patterns
MarkersOf(commits, found, sectionBreaks, keywordBreaks, notes) ==
    [i \in 1..Len(commits) |-> "Conventional commit breaking change"]
      \o (IF found /\ sectionBreaks # << >>
          THEN << "BREAKING CHANGE section found" >> ELSE << >>)
      \o [i \in 1..Len(keywordBreaks) |-> "Breaking change keyword detected"]
      \o (IF VersionMatches(notes) # << >>
          THEN << "Major version bump detected" >> ELSE << >>)

\* analyzeBreakingChanges of src/src/breaking-changes.ts: the section keeps
\* its lines as they are and the keyword patterns are always applied
AnalyzeBreakingChanges(notes) ==
    LET commits == CommitBreaks(notes)
        found == \E i \in 1..Len(notes) : notes[i].kind = "breakingHeading"
        sectionBreaks == NoteBreaks(SectionBullets(notes, "breakingHeading"),
                                    TRUE)
        keywordBreaks == NoteBreaks(KeywordMatches(notes), TRUE)
    IN  BreakingAnalysis(commits, Dedupe(sectionBreaks \o keywordBreaks),
            MarkersOf(commits, found, sectionBreaks, keywordBreaks, notes))

\* analyzeBreakingChanges of src/unnamed/part_007: the section strips the
\* bullet sign and the keyword patterns are applied only without a section
AnalyzeBreakingChangesSectionFirst(notes) ==
    LET commits == CommitBreaks(notes)
        found == \E i \in 1..Len(notes) : notes[i].kind = "breakingHeading"
        sectionBreaks == NoteBreaks(SectionBullets(notes, "breakingHeading"),
                                    FALSE)
        keywordBreaks == IF ~found
                         THEN NoteBreaks(KeywordMatches(notes), TRUE)
                         ELSE << >>
    IN  BreakingAnalysis(commits, Dedupe(sectionBreaks \o keywordBreaks),
            MarkersOf(commits, found, sectionBreaks, keywordBreaks, notes))

InitBreaking ==
    /\ store = [meta |-> NoMeta, rels |-> << >>]
    /\ canvas = [exists |-> FALSE, id |-> 0, content |-> << >>]
    /\ last = NoLast
    /\ hist = [ok |-> 0, createsOk |-> 0, createdId |-> 0,
               createAfter |-> FALSE, createAfterMeta |-> FALSE,
               firstOk |-> << >>, writes |-> 0, lossy |-> FALSE]
    /\ out = NoOut
    /\ proc = NoProc
    /\ pure \in {[op |-> "input", input |-> t, result |-> << >>] :
                   t \in UNION {NotesOver([n \in 1..MaxLines |->
                                                BreakingLinesAt(n)], len) :
                                  len \in 0..MaxLines}}

AnalyzeBreaking ==
    /\ pure.op = "input"
    /\ pure' = [pure EXCEPT !.op = "analyzeBreakingChanges",
                            !.result = AnalyzeBreakingChanges(pure.input)]
    /\ UNCHANGED <<store, canvas, last, hist, out, proc>>

AnalyzeBreakingSectionFirst ==
    /\ pure.op = "input"
    /\ pure' = [pure EXCEPT
                  !.op = "analyzeBreakingChangesSectionFirst",
                  !.result = AnalyzeBreakingChangesSectionFirst(pure.input)]
    /\ UNCHANGED <<store, canvas, last, hist, out, proc>>

NextBreaking == AnalyzeBreaking \/ AnalyzeBreakingSectionFirst

SpecBreaking == InitBreaking /\ [][NextBreaking]_vars

---------------------------------------------------------------------------
(* analyzeE2ETests of src/src/e2e-analysis.ts, in the version that looks at
   the E2E section (line 25) and in the version that looks at the links
   alone (line 337). A line of the notes is about a hundred characters, so
   the context of a URL is its line and the two lines around it. *)

\* "- e2e run https://github.com/o/r/actions/runs/1" and, without the word,
\* "- build https://github.com/o/r/actions/runs/1"
RunLinkBullet(n, e2e) == NoteLine("bullet", n, FALSE, "run", e2e)
\* "- https://github.com/o/r/actions/workflows/e2e.yml" and ".../build.yml"
FileLinkBullet(n, e2e) == NoteLine("bullet", n, FALSE, "file", e2e)

\* the lines that can stand at place n of the notes given to analyzeE2ETests
E2ELinesAt(n) ==
    {Heading("e2eHeading", n), Heading("heading", n), Bullet(n, FALSE),
     RunLinkBullet(n, TRUE), RunLinkBullet(n, FALSE),
     FileLinkBullet(n, TRUE), FileLinkBullet(n, FALSE)}

\* isE2EWorkflowContext of the hundred characters around the URL of line i
IsE2EWorkflowContext(notes, i) ==
    \E j \in {i - 1, i, i + 1} : j \in 1..Len(notes) /\ notes[j].e2e

\* a status that lets a positive keyword win over a negative one
DetermineWorkflowStatus_PassWins(hasPassKeyword, hasFailKeyword) ==
    IF hasPassKeyword THEN "passed"
    ELSE IF hasFailKeyword THEN "failed"
    ELSE "unknown"

\* determineWorkflowStatus, from what context.includes finds
DetermineWorkflowStatus(hasPassKeyword, hasFailKeyword) ==
    IF hasPassKeyword /\ ~hasFailKeyword THEN "passed"
    ELSE IF hasFailKeyword /\ ~hasPassKeyword THEN "failed"
    ELSE "unknown"

\* a positive and a negative keyword in the context of the URL of line i
HasPassKeyword(notes, i) ==
    \E j \in {i - 1, i, i + 1} : j \in 1..Len(notes) /\ notes[j].pos

HasFailKeyword(notes, i) ==
    \E j \in {i - 1, i, i + 1} : j \in 1..Len(notes) /\ notes[j].neg

\* the link pushed for the URL of line l
WorkflowLink(notes, l) ==
    [n |-> l.n,
     type |-> IF l.url = "run" THEN "workflow_run" ELSE "workflow_file",
     status |-> IF l.url = "run"
                THEN DetermineWorkflowStatus(HasPassKeyword(notes, l.n),
                                             HasFailKeyword(notes, l.n))
                ELSE "unknown"]

\* findE2EWorkflowLinks: the run links with an e2e context, then the
\* workflow file links with an e2e file name
FindE2EWorkflowLinks(notes) ==
    LET runs == Pick(notes, {i \in 1..Len(notes) :
                               notes[i].url = "run"
                                 /\ IsE2EWorkflowContext(notes, i)})
        files == Pick(notes, {i \in 1..Len(notes) :
                                notes[i].url = "file" /\ notes[i].e2e})
    IN  [k \in 1..Len(runs) |-> WorkflowLink(notes, runs[k])]
          \o [k \in 1..Len(files) |-> WorkflowLink(notes, files[k])]

\* findE2ESectionItems: the bullets of the E2E sections
FindE2ESectionItems(notes) == SectionBullets(notes, "e2eHeading")

\* analyzeE2ETests of line 25
AnalyzeE2ETests(notes) ==
    LET e2eSectionItems == FindE2ESectionItems(notes)
        workflowLinks == FindE2EWorkflowLinks(notes)
    IN  [hasE2ETests |-> workflowLinks # << >> \/ e2eSectionItems # << >>,
         e2eWorkflowLinks |-> workflowLinks]

\* analyzeE2ETests of line 337
AnalyzeE2ETestsLinksOnly(notes) ==
    LET workflowLinks == FindE2EWorkflowLinks(notes)
    IN  [hasE2ETests |-> workflowLinks # << >>,
         e2eWorkflowLinks |-> workflowLinks]

InitE2E ==
    /\ store = [meta |-> NoMeta, rels |-> << >>]
    /\ canvas = [exists |-> FALSE, id |-> 0, content |-> << >>]
    /\ last = NoLast
    /\ hist = [ok |-> 0, createsOk |-> 0, createdId |-> 0,
               createAfter |-> FALSE, createAfterMeta |-> FALSE,
               firstOk |-> << >>, writes |-> 0, lossy |-> FALSE]
    /\ out = NoOut
    /\ proc = NoProc
    /\ pure \in {[op |-> "input", input |-> t, result |-> << >>] :
                   t \in UNION {NotesOver([n \in 1..MaxLines |->
                                                E2ELinesAt(n)], len) :
                                  len \in 0..MaxLines}}

AnalyzeE2E ==
    /\ pure.op = "input"
    /\ pure' = [pure EXCEPT !.op = "analyzeE2ETests",
                            !.result = AnalyzeE2ETests(pure.input)]
    /\ UNCHANGED <<store, canvas, last, hist, out, proc>>

AnalyzeE2ELinksOnly ==
    /\ pure.op = "input"
    /\ pure' = [pure EXCEPT !.op = "analyzeE2ETestsLinksOnly",
                            !.result = AnalyzeE2ETestsLinksOnly(pure.input)]
    /\ UNCHANGED <<store, canvas, last, hist, out, proc>>

NextE2E == AnalyzeE2E \/ AnalyzeE2ELinksOnly

SpecE2E == InitE2E /\ [][NextE2E]_vars

---------------------------------------------------------------------------
(* determineWorkflowStatus: analyzeE2ETests on notes whose lines hold the
   words that the status is read from *)

\* a line of prose: "the e2e suite", "all passed", "two jobs failed", ...
TextLine(n, e2e, pos, neg) ==
    [NoteLine("text", n, FALSE, "none", e2e) EXCEPT !.pos = pos, !.neg = neg]

\* the lines that can stand at place n of the notes whose status is read
StatusLinesAt(n) ==
    {TextLine(n, e2e, pos, neg) :
       e2e \in BOOLEAN, pos \in BOOLEAN, neg \in BOOLEAN}
      \cup {RunLinkBullet(n, TRUE), RunLinkBullet(n, FALSE),
            FileLinkBullet(n, TRUE)}

InitStatus ==
    /\ store = [meta |-> NoMeta, rels |-> << >>]
    /\ canvas = [exists |-> FALSE, id |-> 0, content |-> << >>]
    /\ last = NoLast
    /\ hist = [ok |-> 0, createsOk |-> 0, createdId |-> 0,
               createAfter |-> FALSE, createAfterMeta |-> FALSE,
               firstOk |-> << >>, writes |-> 0, lossy |-> FALSE]
    /\ out = NoOut
    /\ proc = NoProc
    /\ pure \in {[op |-> "input", input |-> t, result |-> << >>] :
                   t \in UNION {NotesOver([n \in 1..MaxContext |->
                                                StatusLinesAt(n)], len) :
                                  len \in 0..MaxContext}}

AnalyzeStatus ==
    /\ pure.op = "input"
    /\ pure' = [pure EXCEPT !.op = "analyzeE2ETests",
                            !.result = AnalyzeE2ETests(pure.input)]
    /\ UNCHANGED <<store, canvas, last, hist, out, proc>>

NextStatus == AnalyzeStatus

SpecStatus == InitStatus /\ [][NextStatus]_vars

---------------------------------------------------------------------------
(* The major version pattern of analyzeBreakingChanges, on notes that
   mention versions *)

\* the lines that can stand at place n: "release vX.0.0" for every X up to
\* MaxMajor, "release v2.1.0" (which the pattern does not match) and a
\* bullet with a keyword
VersionLinesAt(n) ==
    {VersionMention(n, x) : x \in 0..MaxMajor}
      \cup {TextLine(n, FALSE, FALSE, FALSE), Bullet(n, TRUE)}

InitVersion ==
    /\ store = [meta |-> NoMeta, rels |-> << >>]
    /\ canvas = [exists |-> FALSE, id |-> 0, content |-> << >>]
    /\ last = NoLast
    /\ hist = [ok |-> 0, createsOk |-> 0, createdId |-> 0,
               createAfter |-> FALSE, createAfterMeta |-> FALSE,
               firstOk |-> << >>, writes |-> 0, lossy |-> FALSE]
    /\ out = NoOut
    /\ proc = NoProc
    /\ pure \in {[op |-> "input", input |-> t, result |-> << >>] :
                   t \in UNION {NotesOver([n \in 1..MaxLines |->
                                                VersionLinesAt(n)], len) :
                                  len \in 0..MaxLines}}

AnalyzeVersion ==
    /\ pure.op = "input"
    /\ pure' = [pure EXCEPT !.op = "analyzeBreakingChanges",
                            !.result = AnalyzeBreakingChanges(pure.input)]
    /\ UNCHANGED <<store, canvas, last, hist, out, proc>>

AnalyzeVersionSectionFirst ==
    /\ pure.op = "input"
    /\ pure' = [pure EXCEPT
                  !.op = "analyzeBreakingChangesSectionFirst",
                  !.result = AnalyzeBreakingChangesSectionFirst(pure.input)]
    /\ UNCHANGED <<store, canvas, last, hist, out, proc>>

NextVersion == AnalyzeVersion \/ AnalyzeVersionSectionFirst

SpecVersion == InitVersion /\ [][NextVersion]_vars

---------------------------------------------------------------------------
(* analyzeConfigChanges of src/src/config-analysis.ts. The field config of a
   bullet says that configMentionPattern matches it, the field config of a
   code block that containsConfigFileContent accepts it. *)

\* "## Configuration Updates"
ConfigHeading(n) == Heading("configHeading", n)
\* "- config timeout changed"
ConfigMention(n) == [Bullet(n, FALSE) EXCEPT !.config = TRUE]
\* "see [config.yaml](https://example.com/config.yaml)"
ConfigLinkLine(n) == NoteLine("text", n, FALSE, "config", FALSE)
\* a fenced code block, after the label "before:" or "after:" or after none
CodeBlock(n, label, config) ==
    [NoteLine(label, n, FALSE, "none", FALSE) EXCEPT !.config = config]

CodeKinds == {"code", "beforeCode", "afterCode"}

ConfigDiffs(lines, filename, type) ==
    [i \in 1..Len(lines) |->
       [n |-> lines[i].n, filename |-> filename, type |-> type]]

AnalyzeConfigChanges(notes) ==
    LET configSectionItems == SectionBullets(notes, "configHeading")
        links == Pick(notes, {i \in 1..Len(notes) : notes[i].url = "config"})
        blocks == Pick(notes, {i \in 1..Len(notes) :
                                 notes[i].kind \in CodeKinds
                                   /\ notes[i].config})
        beforeAfter ==
            Pick(notes, {i \in 1..Len(notes) :
                           /\ notes[i].kind = "beforeCode"
                           /\ i < Len(notes)
                           /\ notes[i + 1].kind = "afterCode"
                           /\ notes[i].config \/ notes[i + 1].config})
        configMentions ==
            IF configSectionItems = << >>
            THEN Pick(notes, {i \in 1..Len(notes) :
                                notes[i].kind = "bullet" /\ notes[i].config})
            ELSE << >>
        configLinks == [i \in 1..Len(links) |-> [n |-> links[i].n]]
        configDiffs ==
            ConfigDiffs(configSectionItems, "Configuration change", "mention")
              \o ConfigDiffs(blocks, "Configuration file", "diff")
              \o ConfigDiffs(beforeAfter, "Configuration change",
                             "before-after")
              \o ConfigDiffs(configMentions, "Configuration mention",
                             "mention")
    IN  [hasConfigChanges |-> configLinks # << >> \/ configDiffs # << >>,
         configLinks |-> configLinks,
         configDiffs |-> configDiffs]

---------------------------------------------------------------------------
(* The three analyzers on plain prose: sentences with or without a keyword
   of the breaking-change patterns and with or without the words of the
   e2e context, and empty lines. The notes of no line are the empty text
   and the missing text, which the analyzers treat alike. *)

ProseLinesAt(n) ==
    {ProseLine(n, FALSE), ProseLine(n, TRUE), BlankLine(n),
     TextLine(n, TRUE, TRUE, FALSE)}

\* notes with the patterns of analyzeConfigChanges
ConfigNotes ==
    {<< ConfigHeading(1), Bullet(2, FALSE), ConfigMention(3) >>,
     << ConfigMention(1), ConfigLinkLine(2) >>,
     << CodeBlock(1, "beforeCode", TRUE), CodeBlock(2, "afterCode", FALSE),
        CodeBlock(3, "code", FALSE) >>,
     << ProseLine(1, FALSE), CodeBlock(2, "code", TRUE) >>}

InitProse ==
    /\ store = [meta |-> NoMeta, rels |-> << >>]
    /\ canvas = [exists |-> FALSE, id |-> 0, content |-> << >>]
    /\ last = NoLast
    /\ hist = [ok |-> 0, createsOk |-> 0, createdId |-> 0,
               createAfter |-> FALSE, createAfterMeta |-> FALSE,
               firstOk |-> << >>, writes |-> 0, lossy |-> FALSE]
    /\ out = NoOut
    /\ proc = NoProc
    /\ pure \in {[op |-> "input", input |-> t, result |-> << >>] :
                   t \in ConfigNotes
                          \cup UNION {NotesOver([n \in 1..MaxLines |->
                                                     ProseLinesAt(n)], len) :
                                        len \in 0..MaxLines}}

AnalyzeProseBreaking ==
    /\ pure.op = "input"
    /\ pure' = [pure EXCEPT !.op = "analyzeBreakingChanges",
                            !.result = AnalyzeBreakingChanges(pure.input)]
    /\ UNCHANGED <<store, canvas, last, hist, out, proc>>

AnalyzeProseBreakingSectionFirst ==
    /\ pure.op = "input"
    /\ pure' = [pure EXCEPT
                  !.op = "analyzeBreakingChangesSectionFirst",
                  !.result = AnalyzeBreakingChangesSectionFirst(pure.input)]
    /\ UNCHANGED <<store, canvas, last, hist, out, proc>>

AnalyzeProseConfig ==
    /\ pure.op = "input"
    /\ pure' = [pure EXCEPT !.op = "analyzeConfigChanges",
                            !.result = AnalyzeConfigChanges(pure.input)]
    /\ UNCHANGED <<store, canvas, last, hist, out, proc>>

AnalyzeProseE2E ==
    /\ pure.op = "input"
    /\ pure' = [pure EXCEPT !.op = "analyzeE2ETests",
                            !.result = AnalyzeE2ETests(pure.input)]
    /\ UNCHANGED <<store, canvas, last, hist, out, proc>>

NextProse ==
    \/ AnalyzeProseBreaking
    \/ AnalyzeProseBreakingSectionFirst
    \/ AnalyzeProseConfig
    \/ AnalyzeProseE2E

SpecProse == InitProse /\ [][NextProse]_vars

---------------------------------------------------------------------------
(* The classification of one release by run and by sendReleaseNotification.
   Both analyse the release notes they are given on their own: run to choose
   the changeType of the releases-list entry, sendReleaseNotification to
   choose the title and the colour of the message. *)

\* run of src/src/main.ts: changeType by priority breaking > config > normal
\* (no e2e analysis is made)
ChangeTypeOfMain(hb, hc) ==
    IF hb THEN "breaking" ELSE IF hc THEN "config" ELSE "normal"

\* the classification sendReleaseNotification makes of the notes it is given
NotificationOf(notes) ==
    LET hb == AnalyzeBreakingChanges(notes).hasBreakingChanges
        hc == AnalyzeConfigChanges(notes).hasConfigChanges
        he == AnalyzeE2ETests(notes).hasE2ETests
    IN  [label |-> ReleaseTitle(hb, hc, he).label,
         emoji |-> ReleaseTitle(hb, hc, he).emoji,
         colour |-> MessageColor(hb, hc, he)]

\* run of src/src/main.ts on these notes: the changeType of the entry and
\* the notification of the same notes
RunMainTs(notes) ==
    [changeType |->
         ChangeTypeOfMain(AnalyzeBreakingChanges(notes).hasBreakingChanges,
                          AnalyzeConfigChanges(notes).hasConfigChanges),
     notification |-> NotificationOf(notes)]

\* run of src/unnamed/part_004 on these notes
RunPart004(notes) ==
    [changeType |->
         ChangeTypeOf(AnalyzeBreakingChanges(notes).hasBreakingChanges,
                      AnalyzeConfigChanges(notes).hasConfigChanges,
                      AnalyzeE2ETests(notes).hasE2ETests),
     notification |-> NotificationOf(notes)]

\* the lines that can stand at place n of the notes of a release
ReleaseLinesAt(n) ==
    {Heading("breakingHeading", n), Bullet(n, FALSE), Bullet(n, TRUE),
     ConfigLinkLine(n), RunLinkBullet(n, TRUE), ProseLine(n, FALSE)}

InitClassify ==
    /\ store = [meta |-> NoMeta, rels |-> << >>]
    /\ canvas = [exists |-> FALSE, id |-> 0, content |-> << >>]
    /\ last = NoLast
    /\ hist = [ok |-> 0, createsOk |-> 0, createdId |-> 0,
               createAfter |-> FALSE, createAfterMeta |-> FALSE,
               firstOk |-> << >>, writes |-> 0, lossy |-> FALSE]
    /\ out = NoOut
    /\ proc = NoProc
    /\ pure \in {[op |-> "input", input |-> t, result |-> << >>] :
                   t \in UNION {NotesOver([n \in 1..MaxNotes |->
                                              ReleaseLinesAt(n)], len) :
                                 len \in 0..MaxNotes}}

ClassifyMainTs ==
    /\ pure.op = "input"
    /\ pure' = [pure EXCEPT !.op = "run main.ts",
                            !.result = RunMainTs(pure.input)]
    /\ UNCHANGED <<store, canvas, last, hist, out, proc>>

ClassifyPart004 ==
    /\ pure.op = "input"
    /\ pure' = [pure EXCEPT !.op = "run part_004",
                            !.result = RunPart004(pure.input)]
    /\ UNCHANGED <<store, canvas, last, hist, out, proc>>

NextClassify == ClassifyMainTs \/ ClassifyPart004

SpecClassify == InitClassify /\ [][NextClassify]_vars

Next == UpdateA

Spec == Init /\ [][Next]_vars

---------------------------------------------------------------------------
(* Claims about the file-store version *)

Creates(calls) == Count(calls, "canvases.create")
Edits(calls) == Count(calls, "canvases.edit")
StoreWrites(calls) == Count(calls, "writeMetadata") + Count(calls, "writeReleases")

C2_FirstSuccessCreates ==
    /\ hist.ok >= 1 => Creates(hist.firstOk) = 1 /\ Edits(hist.firstOk) = 0
    /\ (last.ret /\ hist.ok >= 2) =>
          /\ Edits(last.calls) = 1 /\ Creates(last.calls) = 0
          /\ last.target = hist.createdId

\* C2 (amended): the first call whose create or edit succeeds issues exactly
\* one create and no edit, whether or not it then returns true; every later
\* successful call issues an edit against the created canvas id and no
\* create.
C2_FirstWriteCreates ==
    /\ (last.target # 0 /\ hist.writes = 1) =>
          Creates(last.calls) = 1 /\ Edits(last.calls) = 0
    /\ (last.ret /\ hist.writes >= 2) =>
          /\ Edits(last.calls) = 1 /\ Creates(last.calls) = 0
          /\ last.target = hist.createdId

C2_Witness ==
    /\ last.ret /\ hist.writes >= 2 /\ hist.ok = 1
    /\ Edits(last.calls) = 1 /\ last.target = hist.createdId

\* C3: the stored list never holds more than 50 entries; after a successful
\* call the new release is at index 0; a successful call on a list of 50
\* drops exactly the last entry and keeps the other 49 in order.
C3_Retention ==
    [][ /\ Len(store'.rels) <= MaxReleases
        /\ (last'.ret /\ ~last'.rejected) =>
              /\ store'.rels[1] = ReleaseA(last'.version)
              /\ store'.rels[1].version = hist.ok + 1
              /\ Len(store.rels) = MaxReleases =>
                   store'.rels = << store'.rels[1] >>
                                   \o SubSeq(store.rels, 1, MaxReleases - 1)
              /\ Len(store.rels) < MaxReleases =>
                   store'.rels = << store'.rels[1] >> \o store.rels ]_vars

C3_Witness ==
    /\ Len(store.rels) = MaxReleases /\ last.ret
    /\ store.rels[1].version = MaxReleases + 1
    /\ store.rels[MaxReleases].version = 2

\* the versions of the entries a canvas shows in its "Recent Releases" part
DocVersions(content) ==
    LET IsSection(i) == content[i].kind \in {"allHeader", "statTotal", "empty"}
        ends == {i \in 1..Len(content) : IsSection(i)}
        stop == IF ends = {} THEN Len(content) + 1
                ELSE CHOOSE i \in ends : \A j \in ends : i <= j
        IsEntry(l) == l.kind \in {"recentBold", "bullet"}
        shown == SelectSeq(SubSeq(content, 1, stop - 1), IsEntry)
    IN  [i \in 1..Len(shown) |-> shown[i].e.version]

\* C4: when the prior entries are reloaded from the canvas content, n <= 50
\* successful calls in sequence, each of which found the canvas and read its
\* content, leave a canvas that lists all n releases, newest first.
C4_AllReleasesKept ==
    (last.variant = "B" /\ ~hist.lossy /\ hist.ok >= 1
       /\ hist.ok <= MaxReleases) =>
        DocVersions(canvas.content) = [i \in 1..hist.ok |-> hist.ok + 1 - i]

\* the calls made after conversations.canvases.create
CallsAfterCreate(calls) ==
    LET at == {i \in 1..Len(calls) : calls[i] = "canvases.create"}
    IN  IF at = {} THEN << >>
        ELSE SubSeq(calls, (CHOOSE i \in at : TRUE) + 1, Len(calls))

AlreadyExists(l) ==
    l.variant = "C" /\ l.create = "channel_canvas_already_exists"

C10_ExistingCanvasKept ==
    [][ (AlreadyExists(last') /\ last'.found = 0) =>
          /\ canvas' = canvas
          /\ hist'.createsOk = hist.createsOk
          /\ (~last'.ret \/ last'.log \in {"warn:already_exists",
                                           "warn:skipped"}) ]_vars

\* the classification by strict priority
Classification(flags) ==
    IF flags[1] THEN "breaking"
    ELSE IF flags[2] THEN "config"
    ELSE IF flags[3] THEN "e2e"
    ELSE "normal"

\* the emoji, label and colour of each classification
Appearance(class) ==
    CASE class = "breaking" ->
           << "warning rocket", "BREAKING RELEASE", "#ff9900" >>
      [] class = "config" -> << "gear rocket", "CONFIG UPDATE", "#ffcc00" >>
      [] class = "e2e" ->
           << "test-tube rocket", "E2E WORKFLOW RELEASE", "#00bcd4" >>
      [] class = "normal" -> << "rocket", "New Release", "#36a64f" >>

\* C5: for every combination of the three flags the message posted has the
\* emoji, the label and the colour of one classification, the one of the
\* strict priority breaking, config, e2e, normal.
C5_OneClassification ==
    out.posted =>
        << out.emoji, out.label, out.colour >>
            = Appearance(Classification(out.flags))

C5_Witness ==
    /\ out.posted /\ out.flags = << TRUE, TRUE, TRUE >>
    /\ out.colour = "#ff9900" /\ out.label = "BREAKING RELEASE"

\* C7: when the notification was sent and updateReleasesListCanvas resolved
\* to false, run does not fail the action: it logs a warning and sets
\* notification-sent to 'true' and releases-list-updated to 'false'.
C7_PartialSuccess ==
    (out.posted /\ out.update = "false") =>
        /\ ~out.failed /\ out.warned
        /\ out.notificationSent = "true"
        /\ out.releasesListUpdated = "false"

C7_Witness ==
    /\ out.posted /\ out.update = "false" /\ ~out.failed /\ out.warned
    /\ out.releasesListUpdated = "false" /\ ~last.ret /\ last.version = out.runs
    /\ Creates(last.calls) = 1

HasVersion(releases, v) == \E i \in DOMAIN releases : releases[i].version = v

DocHasVersion(content, v) ==
    \E i \in DOMAIN content :
        content[i].kind \in {"recentHeading", "bullet"}
          /\ content[i].e.version = v

BothReturnedTrue ==
    \A p \in Procs : proc.p[p].pc = "done" /\ proc.p[p].ret = "true"

\* C11: when two invocations for the same channel have loaded the same
\* prior entries and both return true, the entry file and the canvas hold
\* the new entry of one of them only (not always of the same one): the
\* entry of the other is lost.
C11_LostUpdate ==
    (BothReturnedTrue /\ proc.p[1].prior = proc.p[2].prior) =>
        /\ \E p \in Procs : ~HasVersion(store.rels, proc.p[p].version)
        /\ \E p \in Procs : ~DocHasVersion(canvas.content, proc.p[p].version)
        /\ Len(store.rels) = Min(MaxReleases, Len(proc.p[1].prior) + 1)

C11_Witness ==
    /\ BothReturnedTrue /\ proc.p[1].prior = proc.p[2].prior
    /\ Len(proc.p[1].prior) = 2 /\ Len(store.rels) = 3
    /\ ~HasVersion(store.rels, proc.p[2].version)
    /\ HasVersion(store.rels, proc.p[1].version)
    /\ ~DocHasVersion(canvas.content, proc.p[2].version)

\* the entries a canvas of the file-store version shows, in order
DocEntries(content) ==
    LET IsEntry(l) == l.kind \in {"recentHeading", "bullet"}
        shown == SelectSeq(content, IsEntry)
    IN  [i \in 1..Len(shown) |-> shown[i].e]

\* C12: a successful call that creates the first canvas of the channel
\* leaves a canvas with exactly one entry, the one of the input version, and
\* a metadata file that records the id returned by create and the count 1.
C12_FirstReconcile ==
    [][ (~canvas.exists /\ last'.ret /\ Creates(last'.calls) = 1) =>
          /\ DocEntries(canvas'.content) = << ReleaseA(last'.version) >>
          /\ canvas'.exists /\ canvas'.id = last'.target
          /\ store'.meta = [present |-> TRUE, canvasId |-> canvas'.id,
                            releaseCount |-> 1]
          /\ store'.rels = << ReleaseA(last'.version) >> ]_vars

C12_Witness ==
    /\ hist.ok = 1 /\ last.ret /\ Creates(last.calls) = 1
    /\ canvas.exists /\ store.meta.canvasId = canvas.id
    /\ store.meta.releaseCount = 1 /\ Len(DocEntries(canvas.content)) = 1

\* C13: when the entry file cannot be read as a list and every other call
\* succeeds, the prior list is taken as empty: the canvas written holds the
\* new release alone and the call returns true.
C13_DegradesToEmpty ==
    (/\ last.variant = "A" /\ last.load # "ok" /\ last.list = "found"
     /\ last.createKind = "ok" /\ last.edit = "ok"
     /\ last.metaWrite = "ok" /\ last.relWrite = "ok") =>
        /\ last.ret
        /\ DocEntries(canvas.content) = << ReleaseA(last.version) >>
        /\ store.rels = << ReleaseA(last.version) >>

\* The fields of an entry that a round trip is to keep. The version string
\* of an entry whose link is "text" is "[v](url)", not v.
KeptFields(e) ==
    [version |-> << e.version, e.link = "text" >>, date |-> e.date,
     changeType |-> e.changeType, hasBreaking |-> e.hasBreaking,
     hasConfig |-> e.hasConfig, hasE2E |-> e.hasE2E]

\* C14: parsing the markdown generated for an entry list returns the same
\* entries in the same order, each with the same version, date, changeType,
\* hasBreaking, hasConfig and hasE2E.
C14_RoundTrip ==
    pure.op \in {"roundTripB", "roundTripC"} =>
        /\ Len(pure.result) = Len(pure.input)
        /\ \A i \in DOMAIN pure.input :
             KeptFields(pure.result[i]) = KeptFields(pure.input[i])

\* C15: two renderings of one entry list, whenever they are made, give the
\* same markdown.
C15_RenderingIsPure ==
    pure.op \in {"renderA", "renderB"} => pure.result[1] = pure.result[2]

\* C6: updateReleasesListCanvas never rejects, whatever an external call
\* throws, and resolves to false when a call failed.
C6_NeverRejects ==
    /\ ~last.rejected
    /\ last.log \notin {"none", "info:updated"} => ~last.ret

\* C8: a channel reference that cannot be resolved makes the call return
\* false without a create, an edit or a store write.
C8_UnresolvedChannelNoEffect ==
    [][ (last'.ref # "C1" /\ last'.list # "found") =>
          /\ ~last'.ret /\ ~last'.rejected
          /\ Creates(last'.calls) = 0 /\ Edits(last'.calls) = 0
          /\ StoreWrites(last'.calls) = 0
          /\ store' = store /\ canvas' = canvas ]_vars

C8_Witness ==
    /\ last.ref = "#releases" /\ last.list \in {"absent", "throws"}
    /\ last.variant = "A" /\ ~last.ret /\ canvas.exists

---------------------------------------------------------------------------
\* where a line stands in a text, 0 if it does not
PositionOf(text, line) ==
    IF \E i \in 1..Len(text) : text[i] = line
    THEN CHOOSE i \in 1..Len(text) :
           text[i] = line /\ \A j \in 1..(i - 1) : text[j] # line
    ELSE 0

AllThreeFound ==
    /\ pure.op = "message"
    /\ pure.input.breaking.hasBreakingChanges
    /\ pure.input.config.hasConfigChanges
    /\ pure.input.e2e.hasE2ETests

\* C16: when breaking, config and e2e findings are all present, the message
\* is labelled breaking and its body holds the breaking-changes section,
\* the configuration section and the e2e section, in that order.
C16_BreakingLabelAllSections ==
    AllThreeFound =>
        /\ pure.result.label = "BREAKING RELEASE"
        /\ pure.result.emoji = "warning rocket"
        /\ pure.result.colour = "#ff9900"
        /\ 0 < PositionOf(pure.result.body, "BREAKING CHANGES DETECTED")
        /\ PositionOf(pure.result.body, "BREAKING CHANGES DETECTED")
             < PositionOf(pure.result.body, "CONFIGURATION CHANGES")
        /\ PositionOf(pure.result.body, "CONFIGURATION CHANGES")
             < PositionOf(pure.result.body, "E2E WORKFLOWS DETECTED")

C16_Witness ==
    /\ AllThreeFound
    /\ pure.input.breaking.notes > 0 /\ pure.input.config.links > 0
    /\ pure.input.e2e.links > 0 /\ pure.input.custom /\ pure.input.hasUrl

\* C17: the message body never starts with a blank line and never holds
\* two consecutive blank lines, whatever parts are present.
C17_NoBlankLineRuns ==
    pure.op = "message" =>
        LET body == pure.result.body
        IN  /\ body[1] # NL
            /\ \A i \in 1..(Len(body) - 2) :
                 ~(body[i] = NL /\ body[i + 1] = NL /\ body[i + 2] = NL)

---------------------------------------------------------------------------
RequiredMessages ==
    {"release-version is required", "slack-bot-token is required"}

---------------------------------------------------------------------------
HasBreakingHeading(notes) ==
    \E i \in 1..Len(notes) : notes[i].kind = "breakingHeading"

LinesOf(list) == {list[i].n : i \in 1..Len(list)}

\* C19: when the notes hold an explicit BREAKING CHANGES heading,
\* releaseNoteBreaks holds only the bullets inside that section, and no
\* 'Breaking change keyword detected' marker is recorded.
C19_SectionSuppressesKeywords ==
    (pure.op \in {"analyzeBreakingChanges",
                  "analyzeBreakingChangesSectionFirst"}
       /\ HasBreakingHeading(pure.input)) =>
        /\ LinesOf(pure.result.releaseNoteBreaks)
             = LinesOf(SectionBullets(pure.input, "breakingHeading"))
        /\ \A i \in 1..Len(pure.result.breakingChangeMarkers) :
             pure.result.breakingChangeMarkers[i]
               # "Breaking change keyword detected"

\* the same statement for the version of src/unnamed/part_007 alone
C19_SectionFirstVersion ==
    (pure.op = "analyzeBreakingChangesSectionFirst"
       /\ HasBreakingHeading(pure.input)) =>
        /\ LinesOf(pure.result.releaseNoteBreaks)
             = LinesOf(SectionBullets(pure.input, "breakingHeading"))
        /\ \A i \in 1..Len(pure.result.breakingChangeMarkers) :
             pure.result.breakingChangeMarkers[i]
               # "Breaking change keyword detected"

---------------------------------------------------------------------------
\* C20: analyzeE2ETests returns hasE2ETests = true exactly when
\* e2eWorkflowLinks is not empty, whatever headings and bullets the notes
\* hold.
C20_E2EIffLinks ==
    pure.op \in {"analyzeE2ETests", "analyzeE2ETestsLinksOnly"} =>
        (pure.result.hasE2ETests <=> pure.result.e2eWorkflowLinks # << >>)

\* the same statement for the version of line 337 alone
C20_LinksOnlyVersion ==
    pure.op = "analyzeE2ETestsLinksOnly" =>
        (pure.result.hasE2ETests <=> pure.result.e2eWorkflowLinks # << >>)

---------------------------------------------------------------------------
\* C21: e2eWorkflowLinks lists the accepted links in the order in which
\* their URLs stand in the text.
C21_LinksInTextOrder ==
    pure.op \in {"analyzeE2ETests", "analyzeE2ETestsLinksOnly"} =>
        \A i \in 1..Len(pure.result.e2eWorkflowLinks) :
          \A j \in 1..Len(pure.result.e2eWorkflowLinks) :
            i < j => pure.result.e2eWorkflowLinks[i].n
                       < pure.result.e2eWorkflowLinks[j].n

---------------------------------------------------------------------------
\* the lines of the context window of line n
Window(notes, n) == {j \in {n - 1, n, n + 1} : j \in 1..Len(notes)}

\* C22: a workflow-run link is 'passed' exactly when its context window
\* holds a positive keyword and no negative one, 'failed' exactly when it
\* holds a negative keyword and no positive one, 'unknown' otherwise; a
\* workflow-file link is always 'unknown'.
C22_StatusFromContext ==
    pure.op = "analyzeE2ETests" =>
        \A k \in 1..Len(pure.result.e2eWorkflowLinks) :
          LET link == pure.result.e2eWorkflowLinks[k]
              pos == \E j \in Window(pure.input, link.n) : pure.input[j].pos
              neg == \E j \in Window(pure.input, link.n) : pure.input[j].neg
          IN  IF link.type = "workflow_file" THEN link.status = "unknown"
              ELSE /\ link.status = "passed" <=> (pos /\ ~neg)
                   /\ link.status = "failed" <=> (neg /\ ~pos)
                   /\ link.status = "unknown" <=> (pos <=> neg)

C22_Witness ==
    /\ pure.op = "analyzeE2ETests"
    /\ \E k \in 1..Len(pure.result.e2eWorkflowLinks) :
         /\ pure.result.e2eWorkflowLinks[k].type = "workflow_run"
         /\ pure.result.e2eWorkflowLinks[k].status = "unknown"
         /\ \E j \in Window(pure.input, pure.result.e2eWorkflowLinks[k].n) :
              pure.input[j].pos
    /\ \E k \in 1..Len(pure.result.e2eWorkflowLinks) :
         pure.result.e2eWorkflowLinks[k].type = "workflow_file"

---------------------------------------------------------------------------
\* how many times the marker stands in the list
MarkerCount(markers, marker) ==
    Cardinality({i \in 1..Len(markers) : markers[i] = marker})

Analysed ==
    pure.op \in {"analyzeBreakingChanges", "analyzeBreakingChangesSectionFirst"}

\* C23: 'Major version bump detected' is added exactly when the text
\* mentions a version X.0.0 with X >= 2, never for X = 1 or X = 0 alone,
\* and at most once however many mentions there are.
C23_MajorVersionMarker ==
    Analysed =>
        MarkerCount(pure.result.breakingChangeMarkers,
                    "Major version bump detected")
          = IF \E i \in 1..Len(pure.input) :
                  pure.input[i].kind = "version" /\ pure.input[i].major >= 2
            THEN 1 ELSE 0

C23_Witness ==
    /\ Analysed
    /\ Cardinality({i \in 1..Len(pure.input) :
                      pure.input[i].kind = "version"
                        /\ pure.input[i].major >= 2}) >= 2
    /\ \E i \in 1..Len(pure.input) :
         pure.input[i].kind = "version" /\ pure.input[i].major = 1
    /\ MarkerCount(pure.result.breakingChangeMarkers,
                   "Major version bump detected") = 1

---------------------------------------------------------------------------
\* the text is prose: sentences and empty lines, no heading, bullet, link,
\* commit line, version mention or code block
PlainProse(notes) ==
    \A i \in 1..Len(notes) :
       notes[i].kind \in {"text", "blank"} /\ notes[i].url = "none"

\* C24: for missing text, empty text and text with no recognizable
\* pattern, every analyzer returns its flag false and its collections
\* empty.
C24_NothingFoundInProse ==
    (pure.op # "input" /\ PlainProse(pure.input)) =>
        /\ pure.op \in {"analyzeBreakingChanges",
                         "analyzeBreakingChangesSectionFirst"} =>
              /\ ~pure.result.hasBreakingChanges
              /\ pure.result.breakingChangeMarkers = << >>
              /\ pure.result.conventionalCommitBreaks = << >>
              /\ pure.result.releaseNoteBreaks = << >>
        /\ pure.op = "analyzeConfigChanges" =>
              /\ ~pure.result.hasConfigChanges
              /\ pure.result.configLinks = << >>
              /\ pure.result.configDiffs = << >>
        /\ pure.op = "analyzeE2ETests" =>
              /\ ~pure.result.hasE2ETests
              /\ pure.result.e2eWorkflowLinks = << >>

---------------------------------------------------------------------------
\* the last run knew a canvas id and its edit call failed
EditFailed == Edits(last.calls) > 0 /\ last.edit # "ok"

\* C25: when an existing canvas id is known and the edit call fails, no
\* create call is issued in that run and the run returns false.
C25_FailedEditReturnsFalse ==
    EditFailed =>
        /\ Creates(last.calls) = 0
        /\ ~last.ret /\ ~last.rejected

\* the part of it about create: no create call follows a failed edit, and
\* the run does not return true
C25_NoCreateAfterFailedEdit ==
    EditFailed => Creates(last.calls) = 0 /\ ~last.ret

---------------------------------------------------------------------------
\* the create or the edit call of the run failed
DocCallFailed(l) ==
    \/ Edits(l.calls) > 0 /\ l.edit # "ok"
    \/ Creates(l.calls) > 0 /\ l.createKind # "ok"

\* every store write of the run stands after its create or edit call
WritesAfterDocCall(calls) ==
    \A i \in 1..Len(calls) :
       calls[i] \in {"writeMetadata", "writeReleases"} =>
         \E j \in 1..(i - 1) : calls[j] \in {"canvases.create", "canvases.edit"}

\* C26: the metadata and the entry store are written only after the create
\* or edit call has succeeded; a run whose create or edit fails leaves both
\* stores exactly as they were.
C26_StoresAfterDocument ==
    [][ /\ WritesAfterDocCall(last'.calls)
        /\ StoreWrites(last'.calls) > 0 => ~DocCallFailed(last')
        /\ store' # store => StoreWrites(last'.calls) > 0
        /\ DocCallFailed(last') =>
              store' = store /\ StoreWrites(last'.calls) = 0 ]_vars

C26_Witness ==
    /\ DocCallFailed(last) /\ ~last.ret /\ last.variant = "A"
    /\ store.meta.present /\ Len(store.rels) >= 2

\* the calls of a run after the channel reference has been resolved
AfterResolve(calls) ==
    IF calls # << >> /\ calls[1] = "conversations.list"
    THEN SubSeq(calls, 2, Len(calls)) ELSE calls

\* the calls of a run up to its first create or edit
BeforeWrite(calls) ==
    LET at == {i \in 1..Len(calls) :
                 calls[i] \in {"canvases.create", "canvases.edit"}}
    IN  IF at = {} THEN calls
        ELSE SubSeq(calls, 1, (CHOOSE i \in at : \A j \in at : i <= j) - 1)

\* s without the channel lookups it ends with
RECURSIVE DropLookups(_)
DropLookups(s) ==
    IF s # << >> /\ s[Len(s)] = "conversations.info"
    THEN DropLookups(SubSeq(s, 1, Len(s) - 1)) ELSE s

\* the discovery steps among these calls: what precedes the read of the
\* canvas found (files.info) or, when none was found, the channel lookups
\* that precede the create
DiscoverySteps(l) ==
    LET c == BeforeWrite(AfterResolve(l.calls))
        at == {i \in 1..Len(c) : c[i] = "files.info"}
    IN  IF at # {} THEN SubSeq(c, 1, (CHOOSE i \in at : TRUE) - 1)
        ELSE DropLookups(c)

IsPrefix(s, t) == Len(s) <= Len(t) /\ s = SubSeq(t, 1, Len(s))

DiscoveredC(l) == l.variant = "C" /\ l.list = "found"

StatedOrder ==
    << "conversations.info", "setTimeout", "conversations.info",
       "files.list", "files.list" >>

ActualOrder ==
    << "conversations.info", "files.list", "canvases.list", "setTimeout",
       "conversations.info", "files.list", "canvases.list",
       "files.list", "files.list" >>

\* C27 (as stated): discovery runs in the order channel-info lookup, one
\* delayed retry of that lookup, channel-scoped canvas list, workspace-wide
\* canvas list; each later attempt runs only when every earlier one found
\* nothing, the delay occurs at most once and no create or edit precedes
\* the end of discovery.
C27_FourStepDiscovery ==
    DiscoveredC(last) =>
      /\ IsPrefix(DiscoverySteps(last), StatedOrder)
      /\ Count(last.calls, "setTimeout") <= 1

\* C27 (amended): discovery runs in the order standard pass (channel-info
\* lookup, channel-scoped canvas list, canvases list), one delayed retry of
\* the same pass, channel-scoped canvas list, workspace-wide canvas list;
\* it stops at the first call that finds a canvas and runs to the end when
\* none does, the delay occurs at most once and only after a first pass
\* that found nothing, and no create or edit precedes the end of
\* discovery.
C27_DiscoveryOrder ==
    DiscoveredC(last) =>
      LET d == DiscoverySteps(last)
      IN  /\ IsPrefix(d, ActualOrder)
          /\ last.found = 0 => d = ActualOrder
          /\ last.found # 0 =>
                Len(d) = last.found + (IF last.found > 3 THEN 1 ELSE 0)
          /\ Count(last.calls, "setTimeout") <= 1
          /\ Count(last.calls, "setTimeout") = 1 =>
                (last.found = 0 \/ last.found > 3)
          /\ Creates(d) + Edits(d) = 0
          /\ Creates(last.calls) + Edits(last.calls) > 0 =>
                IsPrefix(d, BeforeWrite(AfterResolve(last.calls)))

C27_Witness ==
    /\ DiscoveredC(last) /\ last.found = 8 /\ last.ret
    /\ Count(last.calls, "setTimeout") = 1 /\ Edits(last.calls) = 1

\* the classification a title label stands for
ClassOfLabel(label) ==
    CASE label = "BREAKING RELEASE" -> "breaking"
      [] label = "CONFIG UPDATE" -> "config"
      [] label = "E2E WORKFLOW RELEASE" -> "e2e"
      [] label = "New Release" -> "normal"

Classified == pure.op \in {"run main.ts", "run part_004"}

\* C28: for every release the changeType that run records in the
\* releases-list entry is the classification of the title and of the colour
\* of the notification of the same release.
C28_EntryTypeIsNotificationType ==
    Classified =>
      /\ pure.result.changeType = ClassOfLabel(pure.result.notification.label)
      /\ Appearance(pure.result.changeType)[3] =
            pure.result.notification.colour

\* in the version of src/unnamed/part_004 the two agree
C28_Part004Agrees ==
    pure.op = "run part_004" =>
      /\ pure.result.changeType = ClassOfLabel(pure.result.notification.label)
      /\ Appearance(pure.result.changeType)[3] =
            pure.result.notification.colour

\* the lines of a document that show the entry e
ShownAt(md, e) ==
    {k \in DOMAIN md :
       md[k].kind \in {"recentHeading", "recentBold", "bullet"} /\ md[k].e = e}

\* the place of the "All Releases" header, 0 when the document has none
AllHeaderAt(md) ==
    LET at == {k \in DOMAIN md : md[k].kind = "allHeader"}
    IN  IF at = {} THEN 0 ELSE CHOOSE k \in at : TRUE

Rendered == pure.op \in {"renderA", "renderB"}

\* C29: in the rendered document each entry appears exactly once: the 5
\* newest under Recent Releases with emphasis formatting, the others only
\* under All Releases, a section present exactly when there are more than 5
\* entries.
C29_EachEntryOnce ==
    Rendered =>
      LET md == pure.result[1]
          releases == pure.input.releases
          all == AllHeaderAt(md)
      IN  /\ all # 0 <=> Len(releases) > RecentCount
          /\ \A i \in DOMAIN releases :
                /\ Cardinality(ShownAt(md, releases[i])) = 1
                /\ \A k \in ShownAt(md, releases[i]) :
                      IF i <= RecentCount
                      THEN /\ md[k].kind \in {"recentHeading", "recentBold"}
                           /\ all # 0 => k < all
                      ELSE md[k].kind = "bullet" /\ k > all

\* what holds of the section: it is present exactly when there are more
\* than 5 entries, and the 5 newest entries have the emphasis formatting
C29_AllReleasesWhenMoreThanFive ==
    Rendered =>
      LET md == pure.result[1]
          releases == pure.input.releases
      IN  /\ AllHeaderAt(md) # 0 <=> Len(releases) > RecentCount
          /\ \A i \in DOMAIN releases :
                i <= RecentCount =>
                  \E k \in ShownAt(md, releases[i]) :
                    md[k].kind \in {"recentHeading", "recentBold"}

\* chat.postMessage was called and threw or answered ok=false
PostFailed(o) == o.post \in PostOutcomes \ {"ok"}

\* C30: run attempts the releases-list update only after the notification
\* has been posted: when postMessage throws or answers ok=false, the run
\* makes no canvas create or edit and no store write, the action is marked
\* failed and the notification-sent output is not set.
C30_NoUpdateWithoutNotification ==
    [][ /\ (out'.runs # out.runs /\ PostFailed(out')) =>
              /\ out'.failed
              /\ out'.notificationSent = ""
              /\ out'.releasesListUpdated = ""
              /\ out'.update = "none"
              /\ store' = store /\ canvas' = canvas
              /\ last' = last /\ hist' = hist
        /\ (out'.runs # out.runs /\ out'.update # "none") =>
              out'.post = "ok" /\ out'.posted ]_vars

C30_Witness ==
    /\ PostFailed(out) /\ out.maintain /\ out.failed /\ out.runs = 2
    /\ canvas.exists /\ hist.ok = 1 /\ out.notificationSent = ""

====
